---- MODULE Spec2Model ----
(***************************************************************************)
(* Model of the deterministic core of Meta Minds:                          *)
(*   - data_loader.py: check_file_safety and read_file                     *)
(*   - main.py: _trim_questions_to_exact_count, format_output_final and    *)
(*     the offline template generators                                     *)
(* Text is a sequence of one-character strings, a line is a text without   *)
(* the newline character.                                                  *)
(***************************************************************************)
EXTENDS Integers, Sequences, FiniteSets, TLC

(***************************************************************************)
(* Bounds of the model.                                                    *)
(***************************************************************************)
MaxLines == 4
MaxCount == 2

(***************************************************************************)
(* Characters and string helpers of Python, computed as Python does.       *)
(***************************************************************************)
NL == "\n"

Digit == <<"0", "1", "2", "3", "4", "5", "6", "7", "8", "9">>

isspace(c) == c \in {" ", NL}

isdigit_char(c) == \E d \in 1..10 : Digit[d] = c

Upper == <<"A", "B", "C", "D", "E", "F", "G", "H", "I", "J", "K", "L", "M", "N", "O", "P", "Q",
           "R", "S", "T", "U", "V", "W", "X", "Y", "Z">>
Lower == <<"a", "b", "c", "d", "e", "f", "g", "h", "i", "j", "k", "l", "m", "n", "o", "p", "q",
           "r", "s", "t", "u", "v", "w", "x", "y", "z">>

\* \W of the re module: anything that is not a letter, a digit or "_"
isword(c) ==
    \/ isdigit_char(c) \/ c = "_"
    \/ \E k \in 1..Len(Upper) : c = Upper[k] \/ c = Lower[k]

RECURSIVE str(_)
str(n) == IF n < 10 THEN <<Digit[n + 1]>> ELSE str(n \div 10) \o <<Digit[(n % 10) + 1]>>

\* text.split('\n'): the pieces between the newlines
split(s) ==
    LET nl == { i \in 1..Len(s) : s[i] = NL }
        cut(k) == IF k = 0 THEN 0
                  ELSE IF k > Cardinality(nl) THEN Len(s) + 1
                  ELSE CHOOSE i \in nl : Cardinality({ j \in nl : j < i }) = k - 1
    IN  [k \in 1..(Cardinality(nl) + 1) |-> SubSeq(s, cut(k - 1) + 1, cut(k) - 1)]

RECURSIVE join(_, _)
join(sep, parts) ==
    IF Len(parts) = 0 THEN <<>>
    ELSE IF Len(parts) = 1 THEN parts[1]
    ELSE parts[1] \o sep \o join(sep, Tail(parts))

RECURSIVE rstrip(_)
rstrip(s) ==
    IF Len(s) > 0 /\ isspace(s[Len(s)]) THEN rstrip(SubSeq(s, 1, Len(s) - 1)) ELSE s

RECURSIVE lstrip(_)
lstrip(s) == IF Len(s) > 0 /\ isspace(s[1]) THEN lstrip(Tail(s)) ELSE s

strip(s) == rstrip(lstrip(s))

\* str.isdigit(): non-empty and only digits
isdigit(s) == Len(s) > 0 /\ \A i \in 1..Len(s) : isdigit_char(s[i])

\* the first position at or after i whose character does not satisfy the class
RECURSIVE SkipSpace(_, _)
SkipSpace(s, i) == IF i <= Len(s) /\ isspace(s[i]) THEN SkipSpace(s, i + 1) ELSE i

RECURSIVE SkipDigit(_, _)
SkipDigit(s, i) == IF i <= Len(s) /\ isdigit_char(s[i]) THEN SkipDigit(s, i + 1) ELSE i

RECURSIVE SkipNonWord(_, _)
SkipNonWord(s, i) == IF i <= Len(s) /\ ~isword(s[i]) THEN SkipNonWord(s, i + 1) ELSE i

\* re.match(r'^\s*\d+[\.\)]', line): the position after the match, 0 when there is none
HeaderMatchEnd(line) ==
    LET a == SkipSpace(line, 1)
        b == SkipDigit(line, a)
    IN  IF b > a /\ b <= Len(line) /\ line[b] \in {".", ")"} THEN b + 1 ELSE 0

\* mutant: no whitespace is required after the mark
QuestionMatchEnd_NoSpace(line) == HeaderMatchEnd(line)

\* re.match(r'^\s*(\d+)[\.\)]\s+', line): the position after the match, 0 when there is none
QuestionMatchEnd(line) ==
    LET b == HeaderMatchEnd(line)
        c == IF b = 0 THEN 0 ELSE SkipSpace(line, b)
    IN  IF b # 0 /\ c > b THEN c ELSE 0

\* the index of the first occurrence of sub in s at or after i, 0 when there is none
find(s, sub, i) ==
    LET hits == { k \in i..(Len(s) - Len(sub) + 1) : SubSeq(s, k, k + Len(sub) - 1) = sub }
    IN  IF hits = {} THEN 0 ELSE CHOOSE k \in hits : \A j \in hits : k <= j

contains(s, sub) == find(s, sub, 1) # 0

startswith(s, prefix) == Len(s) >= Len(prefix) /\ SubSeq(s, 1, Len(prefix)) = prefix

(***************************************************************************)
(* State.                                                                  *)
(***************************************************************************)
VARIABLES
    \* _trim_questions_to_exact_count (main.py 361-419)
    result_text,        \* argument: the raw text
    expected_count,     \* argument: the number of questions expected
    lines,              \* result_text.split('\n')
    line_no,            \* position of the for loop of line 381 in lines
    current_question,   \* the lines of the question being built
    in_question,
    question_lines,     \* the questions closed so far, each '\n'.join of its lines
    header_lines,
    result,             \* the returned text
    warnings,           \* what logging.warning recorded
    \* format_output_final (main.py 678-725), for one (header, content) pair
    task_header,
    output_lines,
    tpc                 \* position in the pipeline

VARIABLES
    \* read_file (data_loader.py 40-126)
    file,               \* what the file system holds at file_path
    max_rows,           \* argument: <<>> for None, <<m>> for a number
    interactive,        \* argument
    is_safe,            \* result of check_file_safety
    safety_msg,
    prompts,            \* what the user typed at each input() call
    tried,              \* the reads attempted, in order
    df,                 \* <<>> while nothing is loaded, <<number of rows>> afterwards
    limit_warned,       \* the row-limit warning of lines 111-113 was printed
    outcome,            \* "running", "returned" or "raised"
    error,              \* the exception raised: its type and its message
    lpc

VARIABLES
    \* offline template generators (main.py 516-632)
    template_set,       \* "individual" or "comparison"
    dataset_name,       \* the keywords that occur in the dataset name
    num_questions,      \* argument
    offline_result,     \* the returned text
    opc

VARIABLES
    \* process_datasets (main.py 324-355)
    file_paths,         \* argument
    path_no,            \* position of the for loop of line 332
    datasets,           \* the list being returned
    loads,              \* what read_file did at each position so far
    skipped,            \* the except clause that handled each failed load
    bpc

batchVars == <<file_paths, path_no, datasets, loads, skipped, bpc>>

\* generate_column_descriptions and _analyze_column_intelligently (data_analyzer.py)
VARIABLES
    entry,          \* the function called
    data,           \* the DataFrame: a sequence of columns
    col_no,         \* position of the loop over data.columns
    descriptions,   \* the dict built by generate_column_descriptions, in insertion order
    analysis,       \* outcome of a direct call of _analyze_column_intelligently
    cpc

classVars == <<entry, data, col_no, descriptions, analysis, cpc>>

\* read_input_folder_context (context_collector.py)
VARIABLES
    input_folder,   \* the input folder: whether it exists, and its two text files
    context,        \* the value returned
    xpc

ctxVars == <<input_folder, context, xpc>>

VARIABLES
    \* _generate_offline_results (main.py 476-514)
    tasks,              \* argument: the description of each task
    question_counts,    \* argument: <<>> for None, <<counts>> for a list
    task_no,            \* position of the for loop of line 487
    results,            \* one record per task done: the count asked for, the text
    rpc

resultsVars == <<tasks, question_counts, task_no, results, rpc>>

VARIABLES
    \* main (main.py 844-1072), from the call of process_datasets on
    individual_question_count,
    comparison_question_count,
    dataset_summaries,  \* the dict of line 933, as the sequence of its items
    summary_no,         \* position of the for loop of line 941
    individual_tasks,   \* the descriptions of the tasks of create_smart_tasks
    comparison_task,    \* <<>> for None, <<description>> for a task
    task_results,
    generator,          \* what produced task_results
    mpc

mainVars == <<individual_question_count, comparison_question_count, dataset_summaries,
              summary_no, individual_tasks, comparison_task, task_results, generator, mpc>>

VARIABLES
    \* ContextCollector._save_context and load_recent_context (context_collector.py 714-766)
    context_file,       \* what the file system holds at self.context_file
    initial_file,       \* what it held before the first call
    saved,              \* the records of the calls made so far, in call order
    recent,             \* what load_recent_context returned last
    hpc

historyVars == <<context_file, initial_file, saved, recent, hpc>>

pipelineVars == <<resultsVars, mainVars, historyVars>>

BatchIdle ==
    /\ file_paths = <<>> /\ path_no = 0 /\ datasets = <<>> /\ loads = <<>> /\ skipped = <<>>
    /\ bpc = "idle"

loadVars == <<file, max_rows, interactive, is_safe, safety_msg, prompts, tried, df,
              limit_warned, outcome, error, lpc>>

offlineVars == <<template_set, dataset_name, num_questions, offline_result, opc>>

trimVars == <<result_text, expected_count, lines, line_no, current_question, in_question,
              question_lines, header_lines, result, warnings, task_header, output_lines, tpc>>

(***************************************************************************)
(* Inputs of the Normalizer: texts made of at most MaxLines lines.         *)
(***************************************************************************)
InputLines == {
    <<>>,                           \* blank line
    <<" ">>,                        \* whitespace only
    <<"a">>,                        \* plain text
    <<"1", ".", " ", "a">>,         \* "1. a"
    <<" ", "7", ")", " ", "b">>,    \* " 7) b"
    <<"3", ".", "c">>,              \* "3.c": number and dot, no whitespace after it
    <<"h">>                         \* the header of the task
}

InputTexts == { join(<<NL>>, ls) : ls \in UNION { [1..n -> InputLines] : n \in 0..MaxLines } }

TaskHeaders == { <<" ", "h", " ">> }

(***************************************************************************)
(* _trim_questions_to_exact_count                                          *)
(***************************************************************************)
\* mutant: the last expected_count questions are kept instead of the first
TrimToCount_KeepLast(qs, n) == IF Len(qs) > n THEN SubSeq(qs, Len(qs) - n + 1, Len(qs)) ELSE qs

\* lines 404-407: keep the first expected_count questions
TrimToCount(qs, n) == IF Len(qs) > n THEN SubSeq(qs, 1, n) ELSE qs

\* mutant: the question still open at the end of the input is forgotten
FlushLast_Dropped(qs, cur) == qs

\* lines 400-402: the question still open at the end of the input is recorded
FlushLast(qs, cur) == IF Len(cur) > 0 THEN Append(qs, join(<<NL>>, cur)) ELSE qs

\* mutant: the header ends at the first line that starts a question
RECURSIVE HeaderLines_UntilQuestion(_, _)
HeaderLines_UntilQuestion(ls, i) ==
    IF i > Len(ls) \/ QuestionMatchEnd(ls[i]) # 0 THEN <<>>
    ELSE <<ls[i]>> \o HeaderLines_UntilQuestion(ls, i + 1)

\* lines 410-414: the lines before the first line that starts with a number and '.' or ')'
RECURSIVE HeaderLines(_, _)
HeaderLines(ls, i) ==
    IF i > Len(ls) \/ HeaderMatchEnd(ls[i]) # 0 THEN <<>>
    ELSE <<ls[i]>> \o HeaderLines(ls, i + 1)

\* mutant: the header is joined without rstrip()
Rebuild_NoRstrip(hs, qs) == join(<<NL>>, hs) \o <<NL, NL>> \o join(<<NL, NL>>, qs)

\* line 417
Rebuild(hs, qs) == rstrip(join(<<NL>>, hs)) \o <<NL, NL>> \o join(<<NL, NL>>, qs)

ClassIdle ==
    /\ entry = "none" /\ data = <<>> /\ col_no = 0 /\ descriptions = <<>> /\ analysis = <<>>
    /\ cpc = "idle"

ContextIdle == input_folder = <<>> /\ context = <<>> /\ xpc = "idle"

ResultsIdle ==
    /\ tasks = <<>> /\ question_counts = <<>> /\ task_no = 0 /\ results = <<>> /\ rpc = "idle"

MainIdle ==
    /\ individual_question_count = 0 /\ comparison_question_count = 0
    /\ dataset_summaries = <<>> /\ summary_no = 0
    /\ individual_tasks = <<>> /\ comparison_task = <<>>
    /\ task_results = <<>> /\ generator = "none" /\ mpc = "idle"

HistoryIdle ==
    /\ context_file = <<>> /\ initial_file = <<>> /\ saved = <<>> /\ recent = <<>>
    /\ hpc = "idle"

PipelineIdle == ResultsIdle /\ MainIdle /\ HistoryIdle

vars == <<trimVars, loadVars, offlineVars, batchVars, classVars, ctxVars, pipelineVars>>

TrimIdle ==
    /\ lines = <<>> /\ line_no = 0 /\ current_question = <<>> /\ in_question = FALSE
    /\ question_lines = <<>> /\ header_lines = <<>> /\ result = <<>> /\ warnings = <<>>
    /\ output_lines = <<>>

TrimInit ==
    /\ result_text \in InputTexts
    /\ expected_count \in 1..MaxCount
    /\ task_header \in TaskHeaders
    /\ TrimIdle
    /\ tpc = "start"

\* line 374
TrimSplit ==
    /\ tpc = "start"
    /\ lines' = split(result_text)
    /\ line_no' = 1
    /\ tpc' = "loop"
    /\ UNCHANGED <<loadVars, offlineVars, batchVars, classVars, ctxVars, pipelineVars>>
    /\ UNCHANGED <<result_text, expected_count, current_question, in_question, question_lines,
                   header_lines, result, warnings, task_header, output_lines>>

InLoop == tpc = "loop" /\ line_no <= Len(lines)

LoopStep ==
    /\ line_no' = line_no + 1
    /\ UNCHANGED <<loadVars, offlineVars, batchVars, classVars, ctxVars, pipelineVars>>
    /\ UNCHANGED <<result_text, expected_count, lines, header_lines, result, warnings,
                   task_header, output_lines, tpc>>

\* lines 384-390: a numbered line closes the open question and starts a new one
TrimNumberedLine ==
    /\ InLoop
    /\ QuestionMatchEnd(lines[line_no]) # 0
    /\ question_lines' = IF Len(current_question) > 0
                         THEN Append(question_lines, join(<<NL>>, current_question))
                         ELSE question_lines
    /\ current_question' = <<lines[line_no]>>
    /\ in_question' = TRUE
    /\ LoopStep

\* lines 391-393: a non-blank line continues the open question
TrimContinuationLine ==
    /\ InLoop
    /\ QuestionMatchEnd(lines[line_no]) = 0
    /\ in_question /\ strip(lines[line_no]) # <<>>
    /\ current_question' = Append(current_question, lines[line_no])
    /\ UNCHANGED <<in_question, question_lines>>
    /\ LoopStep

\* lines 394-398: a blank line closes the open question
TrimBlankLine ==
    /\ InLoop
    /\ QuestionMatchEnd(lines[line_no]) = 0
    /\ ~(in_question /\ strip(lines[line_no]) # <<>>)
    /\ strip(lines[line_no]) = <<>> /\ Len(current_question) > 0
    /\ question_lines' = Append(question_lines, join(<<NL>>, current_question))
    /\ current_question' = <<>>
    /\ in_question' = FALSE
    /\ LoopStep

\* no branch of lines 384-398 applies: the line is dropped
TrimSkippedLine ==
    /\ InLoop
    /\ QuestionMatchEnd(lines[line_no]) = 0
    /\ ~(in_question /\ strip(lines[line_no]) # <<>>)
    /\ ~(strip(lines[line_no]) = <<>> /\ Len(current_question) > 0)
    /\ UNCHANGED <<current_question, in_question, question_lines>>
    /\ LoopStep

\* lines 400-402
TrimEndOfInput ==
    /\ tpc = "loop" /\ line_no > Len(lines)
    /\ question_lines' = FlushLast(question_lines, current_question)
    /\ tpc' = "count"
    /\ UNCHANGED <<loadVars, offlineVars, batchVars, classVars, ctxVars, pipelineVars>>
    /\ UNCHANGED <<result_text, expected_count, lines, line_no, current_question, in_question,
                   header_lines, result, warnings, task_header, output_lines>>

\* lines 404-419
TrimReturn ==
    /\ tpc = "count"
    /\ warnings' = IF Len(question_lines) > expected_count
                   THEN Append(warnings, [kind |-> "trimming", generated |-> Len(question_lines),
                                          kept |-> expected_count])
                   ELSE warnings
    /\ question_lines' = TrimToCount(question_lines, expected_count)
    /\ header_lines' = HeaderLines(lines, 1)
    /\ result' = Rebuild(header_lines', question_lines')
    /\ tpc' = "returned"
    /\ UNCHANGED <<loadVars, offlineVars, batchVars, classVars, ctxVars, pipelineVars>>
    /\ UNCHANGED <<result_text, expected_count, lines, line_no, current_question, in_question,
                   task_header, output_lines>>

(***************************************************************************)
(* format_output_final, the part that handles one task result              *)
(***************************************************************************)

\* str.lower()
lower(s) == [i \in 1..Len(s) |->
                IF \E k \in 1..Len(Upper) : Upper[k] = s[i]
                THEN Lower[CHOOSE k \in 1..Len(Upper) : Upper[k] = s[i]]
                ELSE s[i]]

ErrorPrefix == <<"e", "r", "r", "o", "r", " ", "e", "x", "e", "c", "u", "t", "i", "n", "g",
                 " ", "t", "a", "s", "k">>

Unparseable == <<"[Task completed, but generated unexpected or unparseable output.]">>
NoContent == <<"[Task completed, generated no output content.]">>

\* lines 689-693: the lines that are not blank and do not contain the header
RECURSIVE CleanedLines(_, _)
CleanedLines(ls, header) ==
    IF Len(ls) = 0 THEN <<>>
    ELSE (IF ~contains(ls[1], strip(header)) /\ strip(ls[1]) # <<>> THEN <<ls[1]>> ELSE <<>>)
         \o CleanedLines(Tail(ls), header)

\* lines 697-713: one line without its leading numbering
FormatLine(line) ==
    LET p == find(line, <<".", " ">>, 1)
        line_stripped == strip(line)
    IN  IF p # 0 /\ isdigit(strip(SubSeq(line, 1, p - 1)))
        THEN strip(SubSeq(line, p + 2, Len(line)))
        ELSE IF Len(line_stripped) > 0 /\ isdigit_char(line_stripped[1])
             \* re.match(r'^\d+\W*\s*', line_stripped) matches whenever the first character is a digit
             THEN strip(SubSeq(line_stripped,
                               SkipSpace(line_stripped, SkipNonWord(line_stripped, SkipDigit(line_stripped, 1))),
                               Len(line_stripped)))
             ELSE line_stripped

\* lines 715-717
NumberedLines(questions) == [i \in 1..Len(questions) |-> str(i) \o <<".", " ">> \o questions[i]]

\* lines 680-725
FormatResult(header, content) ==
    LET content_str == strip(content)
        cleaned_lines == CleanedLines(split(content_str), header)
        formatted_questions == [i \in 1..Len(cleaned_lines) |-> FormatLine(cleaned_lines[i])]
    IN  IF startswith(lower(content_str), ErrorPrefix) THEN <<content_str>>
        ELSE IF Len(formatted_questions) > 0 THEN NumberedLines(formatted_questions)
        ELSE IF Len(content_str) > 0 THEN <<Unparseable>>
        ELSE <<NoContent>>

FormatOutput ==
    /\ tpc = "returned"
    /\ output_lines' = FormatResult(task_header, result)
    /\ tpc' = "done"
    /\ UNCHANGED <<loadVars, offlineVars, batchVars, classVars, ctxVars, pipelineVars>>
    /\ UNCHANGED <<result_text, expected_count, lines, line_no, current_question, in_question,
                   question_lines, header_lines, result, warnings, task_header>>

TrimNext ==
    \/ TrimSplit
    \/ TrimNumberedLine
    \/ TrimContinuationLine
    \/ TrimBlankLine
    \/ TrimSkippedLine
    \/ TrimEndOfInput
    \/ TrimReturn
    \/ FormatOutput

(***************************************************************************)
(* Properties of the Normalizer                                            *)
(***************************************************************************)
\* The questions a text holds: the loop of lines 381-402 as a function of the lines.
RECURSIVE ExtractFrom(_, _, _, _, _)
ExtractFrom(ls, i, qs, cur, inq) ==
    IF i > Len(ls) THEN (IF Len(cur) > 0 THEN Append(qs, join(<<NL>>, cur)) ELSE qs)
    ELSE IF QuestionMatchEnd(ls[i]) # 0
         THEN ExtractFrom(ls, i + 1,
                          IF Len(cur) > 0 THEN Append(qs, join(<<NL>>, cur)) ELSE qs,
                          <<ls[i]>>, TRUE)
    ELSE IF inq /\ strip(ls[i]) # <<>>
         THEN ExtractFrom(ls, i + 1, qs, Append(cur, ls[i]), inq)
    ELSE IF strip(ls[i]) = <<>> /\ Len(cur) > 0
         THEN ExtractFrom(ls, i + 1, Append(qs, join(<<NL>>, cur)), <<>>, FALSE)
    ELSE ExtractFrom(ls, i + 1, qs, cur, inq)

ItemsOf(text) == ExtractFrom(split(text), 1, <<>>, <<>>, FALSE)

TrimReturned == tpc \in {"returned", "done"}

\* C1: when at least expected_count questions are extracted from the input, the returned
\* text holds exactly expected_count questions, the first expected_count extracted ones
\* in their order; the others are discarded.
C1_TruncatesToFirst ==
    (TrimReturned /\ Len(ItemsOf(result_text)) >= expected_count)
    => /\ Len(ItemsOf(result)) = expected_count
       /\ ItemsOf(result) = SubSeq(ItemsOf(result_text), 1, expected_count)

C1_Witness ==
    /\ TrimReturned
    /\ Len(ItemsOf(result_text)) > expected_count
    /\ expected_count = 2
    /\ Len(ItemsOf(result)) = 2

\* the text of a question without its numbering token
ItemText(q) == SubSeq(q, QuestionMatchEnd(q), Len(q))

\* C2: the block that comes out holds one entry per kept question, numbered 1..k, each
\* being the text of the question without its numbering token.
C2_StrippedAndRenumbered ==
    (tpc = "done" /\ Len(question_lines) > 0)
    => /\ Len(output_lines) = Len(question_lines)
       /\ \A i \in 1..Len(question_lines) :
              i <= Len(output_lines) =>
                  output_lines[i] = str(i) \o <<".", " ">> \o strip(ItemText(question_lines[i]))

C4_ShortfallSignalled ==
    (TrimReturned /\ Len(ItemsOf(result_text)) < expected_count)
    => \E w \in 1..Len(warnings) : TRUE

(***************************************************************************)
(* data_loader.py                                                          *)
(***************************************************************************)
MAX_FILE_SIZE_MB == 500
MAX_ROWS_DEFAULT == 1000000
LARGE_FILE_WARNING_MB == 50

MB == 1024 * 1024

\* mutant: latin-1 is tried before utf-8
encodings_Latin1First == <<"latin-1", "utf-8", "windows-1252", "iso-8859-1", "cp1252">>

\* line 86
encodings == <<"utf-8", "latin-1", "windows-1252", "iso-8859-1", "cp1252">>

None == <<>>

NoError == [type |-> "none", msg |-> "none"]

\* mutant: the size ceiling is not enforced
check_file_safety_NoCeiling(f) ==
    IF ~f.exists THEN [is_safe |-> FALSE, msg |-> "File not found"]
    ELSE IF ~f.isfile THEN [is_safe |-> FALSE, msg |-> "Path is not a file"]
    ELSE IF ~f.getsize_ok THEN [is_safe |-> FALSE, msg |-> "Cannot check file size"]
    ELSE IF f.size > LARGE_FILE_WARNING_MB * MB
         THEN [is_safe |-> TRUE, msg |-> "WARNING: Large file detected"]
    ELSE [is_safe |-> TRUE, msg |-> "File size OK"]

\* mutant: a file of exactly the ceiling is rejected
check_file_safety_CeilingInclusive(f) ==
    IF ~f.exists THEN [is_safe |-> FALSE, msg |-> "File not found"]
    ELSE IF ~f.isfile THEN [is_safe |-> FALSE, msg |-> "Path is not a file"]
    ELSE IF ~f.getsize_ok THEN [is_safe |-> FALSE, msg |-> "Cannot check file size"]
    ELSE IF f.size >= MAX_FILE_SIZE_MB * MB THEN [is_safe |-> FALSE, msg |-> "File too large"]
    ELSE IF f.size > LARGE_FILE_WARNING_MB * MB
         THEN [is_safe |-> TRUE, msg |-> "WARNING: Large file detected"]
    ELSE [is_safe |-> TRUE, msg |-> "File size OK"]

\* lines 10-38. os.path.getsize either returns the size or raises; size / (1024 * 1024) is
\* compared as a float, which for these sizes is the comparison of the byte counts.
check_file_safety(f) ==
    IF ~f.exists THEN [is_safe |-> FALSE, msg |-> "File not found"]
    ELSE IF ~f.isfile THEN [is_safe |-> FALSE, msg |-> "Path is not a file"]
    ELSE IF ~f.getsize_ok THEN [is_safe |-> FALSE, msg |-> "Cannot check file size"]
    ELSE IF f.size > MAX_FILE_SIZE_MB * MB THEN [is_safe |-> FALSE, msg |-> "File too large"]
    ELSE IF f.size > LARGE_FILE_WARNING_MB * MB
         THEN [is_safe |-> TRUE, msg |-> "WARNING: Large file detected"]
    ELSE [is_safe |-> TRUE, msg |-> "File size OK"]

\* lines 80-82
RowLimit(m) == IF m = None THEN MAX_ROWS_DEFAULT ELSE m[1]

Min(a, b) == IF a < b THEN a ELSE b

\* mutant: nrows is not passed to pandas, the whole file is loaded
ReadRows_NoCap(f, nrows) == f.rows

\* lines 90, 101: pandas keeps the first nrows rows of the file
ReadRows(f, nrows) == Min(f.rows, nrows)

\* line 71: the answers that let the load go on
Accepts(typed) == strip(lower(typed)) \in { <<"y">>, <<"y", "e", "s">> }

(***************************************************************************)
(* Inputs of read_file.                                                    *)
(***************************************************************************)
MaxFileRows == 3
MaxRowsArg == 2

FileSizes == { 1, LARGE_FILE_WARNING_MB * MB, LARGE_FILE_WARNING_MB * MB + 1,
               MAX_FILE_SIZE_MB * MB, MAX_FILE_SIZE_MB * MB + 1 }

RowCounts == (0..MaxFileRows) \cup { MAX_ROWS_DEFAULT, MAX_ROWS_DEFAULT + 1 }

\* os.path.splitext(file_path)[1].lower()
Extensions == { ".csv", ".xlsx", ".json", ".txt" }

EncodingSet == { encodings[i] : i \in 1..Len(encodings) }

MissingFile == [exists |-> FALSE, isfile |-> FALSE, getsize_ok |-> FALSE, size |-> 0,
                ext |-> ".csv", rows |-> 0, decodes |-> {}]

Directory == [MissingFile EXCEPT !.exists = TRUE]

\* a regular file; decodes is the set of encodings under which pandas decodes its bytes
RegularFiles ==
    { [MissingFile EXCEPT !.exists = TRUE, !.isfile = TRUE] }
    \cup { [exists |-> TRUE, isfile |-> TRUE, getsize_ok |-> TRUE, size |-> s,
            ext |-> ".csv", rows |-> r, decodes |-> d] :
           s \in FileSizes, r \in RowCounts, d \in SUBSET EncodingSet }
    \cup { [exists |-> TRUE, isfile |-> TRUE, getsize_ok |-> TRUE, size |-> s,
            ext |-> e, rows |-> r, decodes |-> {}] :
           s \in FileSizes, r \in RowCounts, e \in Extensions \ {".csv"} }

Files == { MissingFile, Directory } \cup RegularFiles

TypedAnswers == { <<"y">>, <<" ", "Y", "E", "S">>, <<"n">>, <<>> }

LoadIdle ==
    /\ file = MissingFile /\ max_rows = None /\ interactive = FALSE
    /\ is_safe = FALSE /\ safety_msg = "" /\ prompts = <<>> /\ tried = <<>> /\ df = <<>>
    /\ limit_warned = FALSE /\ outcome = "idle" /\ error = NoError /\ lpc = "idle"

LoadInit ==
    /\ file \in Files
    /\ max_rows \in {None} \cup { <<m>> : m \in 0..MaxRowsArg }
    /\ interactive \in BOOLEAN
    /\ is_safe = FALSE /\ safety_msg = "" /\ prompts = <<>> /\ tried = <<>> /\ df = <<>>
    /\ limit_warned = FALSE /\ outcome = "running" /\ error = NoError /\ lpc = "start"

Raise(type, msg) ==
    /\ outcome' = "raised"
    /\ error' = [type |-> type, msg |-> msg]
    /\ lpc' = "done"

\* line 58
ReadCheckSafety ==
    /\ lpc = "start"
    /\ is_safe' = check_file_safety(file).is_safe
    /\ safety_msg' = check_file_safety(file).msg
    /\ lpc' = "checked"
    /\ UNCHANGED <<file, max_rows, interactive, prompts, tried, df, limit_warned, outcome, error>>
    /\ UNCHANGED <<trimVars, offlineVars, batchVars, classVars, ctxVars, pipelineVars>>

\* lines 60-62
ReadRejected ==
    /\ lpc = "checked" /\ ~is_safe
    /\ Raise("ValueError", safety_msg)
    /\ UNCHANGED <<file, max_rows, interactive, is_safe, safety_msg, prompts, tried, df, limit_warned>>
    /\ UNCHANGED <<trimVars, offlineVars, batchVars, classVars, ctxVars, pipelineVars>>

\* mutant: every message of check_file_safety is taken for the large-file warning
IsWarning_Any(msg) == TRUE

\* line 65: "WARNING" in safety_msg
IsWarning(msg) == msg = "WARNING: Large file detected"

\* lines 65-71: the user is asked and lets the load go on
ReadConfirmed ==
    /\ lpc = "checked" /\ is_safe /\ IsWarning(safety_msg) /\ interactive
    /\ \E typed \in TypedAnswers :
           /\ Accepts(typed)
           /\ prompts' = Append(prompts, typed)
    /\ lpc' = "load"
    /\ UNCHANGED <<file, max_rows, interactive, is_safe, safety_msg, tried, df, limit_warned,
                   outcome, error>>
    /\ UNCHANGED <<trimVars, offlineVars, batchVars, classVars, ctxVars, pipelineVars>>

\* lines 65-73: the user is asked and declines
ReadCancelled ==
    /\ lpc = "checked" /\ is_safe /\ IsWarning(safety_msg) /\ interactive
    /\ \E typed \in TypedAnswers :
           /\ ~Accepts(typed)
           /\ prompts' = Append(prompts, typed)
    /\ Raise("ValueError", "User cancelled: File too large")
    /\ UNCHANGED <<file, max_rows, interactive, is_safe, safety_msg, tried, df, limit_warned>>
    /\ UNCHANGED <<trimVars, offlineVars, batchVars, classVars, ctxVars, pipelineVars>>

\* mutant: the load goes on without the question being asked
ReadNotAsked_Always ==
    /\ lpc = "checked" /\ is_safe
    /\ lpc' = "load"
    /\ UNCHANGED <<file, max_rows, interactive, is_safe, safety_msg, prompts, tried, df,
                   limit_warned, outcome, error>>
    /\ UNCHANGED <<trimVars, offlineVars, batchVars, classVars, ctxVars, pipelineVars>>

\* lines 65-75: no question is asked
ReadNotAsked ==
    /\ lpc = "checked" /\ is_safe /\ ~(IsWarning(safety_msg) /\ interactive)
    /\ lpc' = "load"
    /\ UNCHANGED <<file, max_rows, interactive, is_safe, safety_msg, prompts, tried, df,
                   limit_warned, outcome, error>>
    /\ UNCHANGED <<trimVars, offlineVars, batchVars, classVars, ctxVars, pipelineVars>>

LoadUnchanged == UNCHANGED <<file, max_rows, interactive, is_safe, safety_msg, prompts>>

\* lines 88-92: the next encoding decodes the file
ReadCsvDecoded ==
    /\ lpc = "load" /\ file.ext = ".csv" /\ Len(tried) < Len(encodings)
    /\ encodings[Len(tried) + 1] \in file.decodes
    /\ tried' = Append(tried, encodings[Len(tried) + 1])
    /\ df' = <<ReadRows(file, RowLimit(max_rows))>>
    /\ lpc' = "loaded"
    /\ UNCHANGED <<limit_warned, outcome, error>>
    /\ LoadUnchanged
    /\ UNCHANGED <<trimVars, offlineVars, batchVars, classVars, ctxVars, pipelineVars>>

\* lines 88-94: the next encoding raises UnicodeDecodeError
ReadCsvDecodeError ==
    /\ lpc = "load" /\ file.ext = ".csv" /\ Len(tried) < Len(encodings)
    /\ encodings[Len(tried) + 1] \notin file.decodes
    /\ tried' = Append(tried, encodings[Len(tried) + 1])
    /\ UNCHANGED <<df, limit_warned, outcome, error, lpc>>
    /\ LoadUnchanged
    /\ UNCHANGED <<trimVars, offlineVars, batchVars, classVars, ctxVars, pipelineVars>>

\* lines 96-99: pandas.read_csv has no parameter named errors, the call raises TypeError
ReadCsvFallback ==
    /\ lpc = "load" /\ file.ext = ".csv" /\ Len(tried) = Len(encodings)
    /\ tried' = Append(tried, "utf-8 errors=ignore")
    /\ Raise("TypeError", "read_csv() got an unexpected keyword argument 'errors'")
    /\ UNCHANGED <<df, limit_warned>>
    /\ LoadUnchanged
    /\ UNCHANGED <<trimVars, offlineVars, batchVars, classVars, ctxVars, pipelineVars>>

\* lines 100-101
ReadExcel ==
    /\ lpc = "load" /\ file.ext = ".xlsx"
    /\ tried' = Append(tried, "excel")
    /\ df' = <<ReadRows(file, RowLimit(max_rows))>>
    /\ lpc' = "loaded"
    /\ UNCHANGED <<limit_warned, outcome, error>>
    /\ LoadUnchanged
    /\ UNCHANGED <<trimVars, offlineVars, batchVars, classVars, ctxVars, pipelineVars>>

\* lines 102-103: pandas.read_json accepts nrows only together with lines=True
ReadJson ==
    /\ lpc = "load" /\ file.ext = ".json"
    /\ tried' = Append(tried, "json")
    /\ Raise("ValueError", "nrows can only be passed if lines=True")
    /\ UNCHANGED <<df, limit_warned>>
    /\ LoadUnchanged
    /\ UNCHANGED <<trimVars, offlineVars, batchVars, classVars, ctxVars, pipelineVars>>

\* lines 104-106
ReadUnsupported ==
    /\ lpc = "load" /\ file.ext \notin {".csv", ".xlsx", ".json"}
    /\ Raise("ValueError", "Unsupported file type")
    /\ UNCHANGED <<tried, df, limit_warned>>
    /\ LoadUnchanged
    /\ UNCHANGED <<trimVars, offlineVars, batchVars, classVars, ctxVars, pipelineVars>>

\* lines 111-113
LimitReached == df[1] = RowLimit(max_rows)

\* lines 110-117: the loaded frame is empty
ReadEmpty ==
    /\ lpc = "loaded" /\ df[1] = 0
    /\ limit_warned' = LimitReached
    /\ Raise("ValueError", "File is empty - no data to analyze")
    /\ UNCHANGED <<tried, df>>
    /\ LoadUnchanged
    /\ UNCHANGED <<trimVars, offlineVars, batchVars, classVars, ctxVars, pipelineVars>>

\* lines 110-119
ReadReturn ==
    /\ lpc = "loaded" /\ df[1] # 0
    /\ limit_warned' = LimitReached
    /\ outcome' = "returned"
    /\ lpc' = "done"
    /\ UNCHANGED <<tried, df, error>>
    /\ LoadUnchanged
    /\ UNCHANGED <<trimVars, offlineVars, batchVars, classVars, ctxVars, pipelineVars>>

LoadNext ==
    \/ ReadCheckSafety
    \/ ReadRejected
    \/ ReadConfirmed
    \/ ReadCancelled
    \/ ReadNotAsked
    \/ ReadCsvDecoded
    \/ ReadCsvDecodeError
    \/ ReadCsvFallback
    \/ ReadExcel
    \/ ReadJson
    \/ ReadUnsupported
    \/ ReadEmpty
    \/ ReadReturn

(***************************************************************************)
(* Offline template generators (main.py 516-632)                           *)
(***************************************************************************)
MaxQuestions == 16

\* the individual templates hold 15 questions each (lines 530-600), the comparison
\* template 10 (lines 616-627); question i is the text "i. ..." of its template
IndividualTemplateSize == 15
ComparisonTemplateSize == 10

Template(size, body) == [i \in 1..size |-> str(i) \o <<".", " ">> \o body]

\* questions[:num_questions]
Slice(questions, n) == SubSeq(questions, 1, Min(n, Len(questions)))

IndividualHeader == <<"-", "-", "-", " ", "h", " ", "-", "-", "-">>
ComparisonHeader == <<"-", "-", "-", " ", "c", " ", "-", "-", "-">>

\* lines 529-600: the template is chosen by the first keyword the dataset name contains
IndividualQuestions(name) ==
    IF "Assets" \in name THEN Template(IndividualTemplateSize, <<"a">>)
    ELSE IF "Liabilities" \in name THEN Template(IndividualTemplateSize, <<"b">>)
    ELSE IF "Ratio" \in name THEN Template(IndividualTemplateSize, <<"c">>)
    ELSE Template(IndividualTemplateSize, <<"q">>)

\* lines 516-605
_generate_offline_individual_result(name, n) ==
    IndividualHeader \o <<NL, NL>> \o join(<<NL>>, Slice(IndividualQuestions(name), n))

\* lines 607-632
_generate_offline_comparison_result(n) ==
    ComparisonHeader \o <<NL, NL>> \o join(<<NL>>, Slice(Template(ComparisonTemplateSize, <<"h">>), n))

DatasetNames == SUBSET {"Assets", "Liabilities", "Ratio"}

OfflineIdle ==
    /\ template_set = "none" /\ dataset_name = {} /\ num_questions = 0
    /\ offline_result = <<>> /\ opc = "idle"

OfflineInit ==
    /\ template_set \in {"individual", "comparison"}
    /\ dataset_name \in (IF template_set = "individual" THEN DatasetNames ELSE {{}})
    /\ num_questions \in 1..MaxQuestions
    /\ offline_result = <<>>
    /\ opc = "start"

OfflineIndividual ==
    /\ opc = "start" /\ template_set = "individual"
    /\ offline_result' = _generate_offline_individual_result(dataset_name, num_questions)
    /\ opc' = "done"
    /\ UNCHANGED <<template_set, dataset_name, num_questions>>
    /\ UNCHANGED <<trimVars, loadVars, batchVars, classVars, ctxVars, pipelineVars>>

OfflineComparison ==
    /\ opc = "start" /\ template_set = "comparison"
    /\ offline_result' = _generate_offline_comparison_result(num_questions)
    /\ opc' = "done"
    /\ UNCHANGED <<template_set, dataset_name, num_questions>>
    /\ UNCHANGED <<trimVars, loadVars, batchVars, classVars, ctxVars, pipelineVars>>

OfflineNext ==
    \/ OfflineIndividual
    \/ OfflineComparison

(***************************************************************************)
(* Properties of the offline template generators                           *)
(***************************************************************************)
\* C5: for every template set and every requested count n >= 1 the returned text holds
\* exactly n questions, numbered 1..n.
C5_ExactlyRequested ==
    opc = "done"
    => /\ Len(ItemsOf(offline_result)) = num_questions
       /\ \A i \in 1..Len(ItemsOf(offline_result)) :
              startswith(ItemsOf(offline_result)[i], str(i) \o <<".", " ">>)

(***************************************************************************)
(* Properties of read_file and check_file_safety                           *)
(***************************************************************************)
SizeKnown(f) == f.exists /\ f.isfile /\ f.getsize_ok

TooLarge(f) == SizeKnown(f) /\ f.size > MAX_FILE_SIZE_MB * MB

InWarningBand(f) ==
    SizeKnown(f) /\ f.size > LARGE_FILE_WARNING_MB * MB /\ f.size <= MAX_FILE_SIZE_MB * MB

\* C6: for a file larger than the ceiling read_file raises the too-large error and attempts
\* no read, whatever the extension, max_rows and interactive are.
C6_TooLargeNeverRead ==
    (lpc # "idle" /\ TooLarge(file))
    => /\ tried = <<>> /\ df = <<>> /\ prompts = <<>>
       /\ lpc \in {"start", "checked", "done"}
       /\ lpc = "done" => (outcome = "raised" /\ error = [type |-> "ValueError", msg |-> "File too large"])

C6_Witness ==
    /\ lpc = "done" /\ TooLarge(file) /\ file.ext = ".csv" /\ interactive
    /\ file.rows > 0 /\ file.decodes # {}
    /\ error.msg = "File too large"

\* a CSV file that can be loaded: it exists, its size can be read and is under the ceiling,
\* and at least one encoding of the list decodes it
ValidCsv(f) ==
    SizeKnown(f) /\ f.size <= MAX_FILE_SIZE_MB * MB /\ f.ext = ".csv" /\ f.decodes # {}

Declined == Len(prompts) > 0 /\ ~Accepts(prompts[1])

C9_MissingRaisesFileNotFound ==
    (lpc = "done" /\ ~file.exists)
    => (outcome = "raised" /\ error.type = "FileNotFoundError")

\* C10: for an existing regular file whose size is s, check_file_safety rejects iff
\* s > 500 MB, accepts with a warning iff 50 MB < s <= 500 MB and accepts silently iff
\* s <= 50 MB; exactly one of the three outcomes happens.
Rejects == ~is_safe
AcceptsWithWarning == is_safe /\ IsWarning(safety_msg)
AcceptsSilently == is_safe /\ ~IsWarning(safety_msg)

C10_ThreeBands ==
    (lpc \notin {"idle", "start"} /\ SizeKnown(file))
    => /\ Rejects <=> file.size > MAX_FILE_SIZE_MB * MB
       /\ AcceptsWithWarning <=> (file.size > LARGE_FILE_WARNING_MB * MB /\ file.size <= MAX_FILE_SIZE_MB * MB)
       /\ AcceptsSilently <=> file.size <= LARGE_FILE_WARNING_MB * MB
       /\ Cardinality({ b \in {"reject", "warn", "silent"} :
                          \/ b = "reject" /\ Rejects
                          \/ b = "warn" /\ AcceptsWithWarning
                          \/ b = "silent" /\ AcceptsSilently }) = 1
       /\ AcceptsSilently => safety_msg = "File size OK"
       /\ Rejects => safety_msg = "File too large"

C10_Witness ==
    /\ lpc = "checked" /\ SizeKnown(file)
    /\ file.size = MAX_FILE_SIZE_MB * MB
    /\ AcceptsWithWarning

\* C11: for a .csv file the encodings are attempted in the order utf-8, latin-1,
\* windows-1252, iso-8859-1, cp1252; the first one that decodes is used and none after it
\* is attempted; the byte-replacement read is attempted once, and only after the five
\* encodings failed to decode.
Ladder == <<"utf-8", "latin-1", "windows-1252", "iso-8859-1", "cp1252", "utf-8 errors=ignore">>

C11_EncodingLadder ==
    (lpc # "idle" /\ file.ext = ".csv")
    => /\ Len(tried) <= Len(Ladder)
       /\ tried = SubSeq(Ladder, 1, Len(tried))
       \* every attempt but the last one failed to decode
       /\ \A i \in 1..(Len(tried) - 1) : i <= 5 /\ tried[i] \notin file.decodes
       \* a frame exists exactly when the last attempt decoded
       /\ df # <<>> <=> (Len(tried) \in 1..5 /\ tried[Len(tried)] \in file.decodes)
       /\ Cardinality({ i \in 1..Len(tried) : tried[i] = "utf-8 errors=ignore" }) <= 1
       /\ (\E i \in 1..Len(tried) : tried[i] = "utf-8 errors=ignore") => file.decodes = {}
       \* when the reads are over, a file no encoding decodes has had its fallback read
       /\ (lpc = "done" /\ tried # <<>> /\ file.decodes = {}) => tried = Ladder

C11_Witness ==
    /\ lpc = "done" /\ file.ext = ".csv" /\ outcome = "returned"
    /\ tried = <<"utf-8", "latin-1", "windows-1252">>
    /\ file.decodes = {"windows-1252", "cp1252"}

(***************************************************************************)
(* process_datasets (main.py 324-355)                                      *)
(***************************************************************************)
MaxPaths == 3

CsvFile(size, rows, decodes) ==
    [exists |-> TRUE, isfile |-> TRUE, getsize_ok |-> TRUE, size |-> size, ext |-> ".csv",
     rows |-> rows, decodes |-> decodes]

\* the paths given to process_datasets, and what the file system holds at each
BatchPaths == {
    [dir |-> "a", base |-> "x.csv"],
    [dir |-> "b", base |-> "x.csv"],
    [dir |-> "a", base |-> "missing.csv"],
    [dir |-> "a", base |-> "empty.csv"],
    [dir |-> "a", base |-> "big.csv"],
    [dir |-> "a", base |-> "huge.csv"],
    [dir |-> "a", base |-> "bad.csv"],
    [dir |-> "a", base |-> "notes.txt"],
    [dir |-> "a", base |-> "book.xlsx"],
    [dir |-> "a", base |-> "d.json"]
}

FileAt(path) ==
    IF path = [dir |-> "a", base |-> "x.csv"] THEN CsvFile(1, 2, {"utf-8", "latin-1"})
    ELSE IF path = [dir |-> "b", base |-> "x.csv"] THEN CsvFile(1, 3, {"latin-1"})
    ELSE IF path = [dir |-> "a", base |-> "empty.csv"] THEN CsvFile(1, 0, {"utf-8"})
    ELSE IF path = [dir |-> "a", base |-> "big.csv"]
         THEN CsvFile(LARGE_FILE_WARNING_MB * MB + 1, 1, {"utf-8"})
    ELSE IF path = [dir |-> "a", base |-> "huge.csv"]
         THEN CsvFile(MAX_FILE_SIZE_MB * MB + 1, 1, {"utf-8"})
    ELSE IF path = [dir |-> "a", base |-> "bad.csv"] THEN CsvFile(1, 1, {})
    ELSE IF path = [dir |-> "a", base |-> "notes.txt"]
         THEN [CsvFile(1, 1, {}) EXCEPT !.ext = ".txt"]
    ELSE IF path = [dir |-> "a", base |-> "book.xlsx"]
         THEN [CsvFile(1, 2, {}) EXCEPT !.ext = ".xlsx"]
    ELSE IF path = [dir |-> "a", base |-> "d.json"]
         THEN [CsvFile(1, 2, {}) EXCEPT !.ext = ".json"]
    ELSE MissingFile

\* os.path.basename
basename(path) == path.base

\* the exception classes of the model that derive from Exception
IsException(type) == type \in {"ValueError", "TypeError", "FileNotFoundError"}

\* mutant: the last except clause is missing
Handler_NoCatchAll(type) ==
    IF type = "FileNotFoundError" THEN "FileNotFoundError"
    ELSE IF type = "ValueError" THEN "ValueError"
    ELSE "uncaught"

\* lines 341-348: the except clause that handles an exception of the type
Handler(type) ==
    IF type = "FileNotFoundError" THEN "FileNotFoundError"
    ELSE IF type = "ValueError" THEN "ValueError"
    ELSE IF IsException(type) THEN "Exception"
    ELSE "uncaught"

BatchInit ==
    /\ file_paths \in UNION { [1..n -> BatchPaths] : n \in 0..MaxPaths }
    /\ path_no = 0 /\ datasets = <<>> /\ loads = <<>> /\ skipped = <<>>
    /\ bpc = "start"

BatchUnchangedLoad == UNCHANGED loadVars

\* lines 326-331
BatchStart ==
    /\ bpc = "start"
    /\ IF Len(file_paths) = 0
       THEN bpc' = "done" /\ path_no' = path_no
       ELSE bpc' = "call" /\ path_no' = 1
    /\ UNCHANGED <<file_paths, datasets, loads, skipped>>
    /\ BatchUnchangedLoad
    /\ UNCHANGED <<trimVars, offlineVars, classVars, ctxVars, pipelineVars>>

\* line 334: read_file(file_path), max_rows and interactive left to their defaults
BatchCall ==
    /\ bpc = "call" /\ path_no <= Len(file_paths)
    /\ file' = FileAt(file_paths[path_no])
    /\ max_rows' = None
    /\ interactive' = TRUE
    /\ is_safe' = FALSE /\ safety_msg' = "" /\ prompts' = <<>> /\ tried' = <<>> /\ df' = <<>>
    /\ limit_warned' = FALSE /\ outcome' = "running" /\ error' = NoError /\ lpc' = "start"
    /\ bpc' = "reading"
    /\ UNCHANGED <<file_paths, path_no, datasets, loads, skipped>>
    /\ UNCHANGED <<trimVars, offlineVars, classVars, ctxVars, pipelineVars>>

LoadRecord ==
    [path |-> file_paths[path_no], outcome |-> outcome, error |-> error.type, prompts |-> prompts]

\* lines 335-339: the frame is appended under the base name of its path
BatchLoaded ==
    /\ bpc = "reading" /\ lpc = "done" /\ outcome = "returned"
    /\ datasets' = Append(datasets, [name |-> basename(file_paths[path_no]), rows |-> df[1],
                                     path |-> file_paths[path_no]])
    /\ loads' = Append(loads, LoadRecord)
    /\ path_no' = path_no + 1
    /\ bpc' = "call"
    /\ lpc' = "idle"
    /\ UNCHANGED <<file_paths, skipped>>
    /\ UNCHANGED <<file, max_rows, interactive, is_safe, safety_msg, prompts, tried, df,
                   limit_warned, outcome, error>>
    /\ UNCHANGED <<trimVars, offlineVars, classVars, ctxVars, pipelineVars>>

\* lines 341-348: the exception is logged and the loop goes on with the next path
BatchSkipped ==
    /\ bpc = "reading" /\ lpc = "done" /\ outcome = "raised"
    /\ loads' = Append(loads, LoadRecord)
    /\ skipped' = Append(skipped, Handler(error.type))
    /\ IF Handler(error.type) = "uncaught"
       THEN bpc' = "raised" /\ path_no' = path_no
       ELSE bpc' = "call" /\ path_no' = path_no + 1
    /\ lpc' = "idle"
    /\ UNCHANGED <<file_paths, datasets>>
    /\ UNCHANGED <<file, max_rows, interactive, is_safe, safety_msg, prompts, tried, df,
                   limit_warned, outcome, error>>
    /\ UNCHANGED <<trimVars, offlineVars, classVars, ctxVars, pipelineVars>>

\* lines 350-355
BatchReturn ==
    /\ bpc = "call" /\ path_no > Len(file_paths)
    /\ bpc' = "done"
    /\ UNCHANGED <<file_paths, path_no, datasets, loads, skipped>>
    /\ BatchUnchangedLoad
    /\ UNCHANGED <<trimVars, offlineVars, classVars, ctxVars, pipelineVars>>

BatchNext ==
    \/ BatchStart
    \/ BatchCall
    \/ BatchLoaded
    \/ BatchSkipped
    \/ BatchReturn
    \/ ReadCheckSafety
    \/ ReadRejected
    \/ ReadConfirmed
    \/ ReadCancelled
    \/ ReadNotAsked
    \/ ReadCsvDecoded
    \/ ReadCsvDecodeError
    \/ ReadCsvFallback
    \/ ReadExcel
    \/ ReadJson
    \/ ReadUnsupported
    \/ ReadEmpty
    \/ ReadReturn

\* what read_file does with a file when it is called alone, max_rows = None: it returns a
\* frame iff the file passes the safety check, is of a readable type, holds a row and,
\* when it is in the warning band, the user typed an accepting answer
Loadable(f) ==
    /\ SizeKnown(f) /\ f.size <= MAX_FILE_SIZE_MB * MB
    /\ f.ext = ".xlsx" \/ (f.ext = ".csv" /\ f.decodes # {})
    /\ Min(f.rows, MAX_ROWS_DEFAULT) > 0

ReturnsAlone(f, typed) ==
    Loadable(f) /\ (InWarningBand(f) => (Len(typed) = 1 /\ Accepts(typed[1])))

RECURSIVE LoadedOf(_)
LoadedOf(ls) ==
    IF Len(ls) = 0 THEN <<>>
    ELSE (IF ReturnsAlone(FileAt(ls[1].path), ls[1].prompts)
          THEN <<[name |-> ls[1].path.base, path |-> ls[1].path,
                  rows |-> Min(FileAt(ls[1].path).rows, MAX_ROWS_DEFAULT)]>>
          ELSE <<>>) \o LoadedOf(Tail(ls))

\* C12: process_datasets never raises; it goes through every path, and returns exactly the
\* datasets whose load succeeds, in the order of the paths; what happens at one position
\* depends on the file at that position alone.
C12_BatchIndependent ==
    /\ bpc # "raised"
    /\ bpc \notin {"idle", "start"} =>
          /\ \A i \in 1..Len(loads) :
                 /\ loads[i].path = file_paths[i]
                 /\ loads[i].outcome = "returned" <=> ReturnsAlone(FileAt(file_paths[i]), loads[i].prompts)
          /\ datasets = LoadedOf(loads)
    /\ bpc = "done" => Len(loads) = Len(file_paths)

C12_Witness ==
    /\ bpc = "done" /\ Len(file_paths) = 3
    /\ skipped = <<"Exception", "ValueError">>
    /\ Len(datasets) = 1 /\ datasets[1].path = file_paths[3]

(***************************************************************************)
(* Column classifier (data_analyzer.py 5-146)                              *)
(*                                                                         *)
(* A number is held as its value times 100, so that two decimals are       *)
(* exact; a cell of a column is <<v>> or NaN.  A description is the        *)
(* f-string of the code: its text with {} for each replacement field, and  *)
(* the formatted values of the fields in order.                            *)
(***************************************************************************)
MaxRows == 3

NaN == <<>>

Str(text) == [is_str |-> TRUE, text |-> text]

\* a column label that is not a string (a numeric header cell of a sheet)
NotStr(n) == [is_str |-> FALSE, text |-> str(n)]
ColumnNames ==
    { Str(t) : t \in {
        <<"r", "e", "v", "e", "n", "u", "e", "_", "2", "0", "2", "2">>,
        <<"Y", "e", "a", "r">>,
        <<"r", "e", "v", "e", "n", "u", "e", "_", "y", "e", "a", "r">>,
        <<"q", "u", "a", "n", "t", "i", "t", "y">>,
        <<"e", "q", "u", "i", "t", "y">>,
        <<"m", "o", "n", "t", "h", "_", "c", "o", "s", "t">>,
        <<"b", "i", "r", "t", "h", "d", "a", "y">>,
        <<"r", "a", "t", "e">>,
        <<"t", "o", "t", "a", "l", "_", "c", "o", "s", "t">>,
        <<"a", "s", "s", "e", "t">>,
        <<"p", "r", "o", "f", "i", "t">>,
        <<"c", "u", "s", "t", "o", "m", "e", "r", "_", "i", "d">>,
        <<"p", "a", "i", "d">>,
        <<"a", "m", "o", "u", "n", "t">>,
        <<"t", "r", "a", "n", "s", "a", "c", "t", "i", "o", "n", "_", "n", "o", "t", "e">>,
        <<"s", "t", "a", "t", "u", "s", "_", "c", "o", "d", "e">>,
        <<"c", "i", "t", "y", "_", "n", "a", "m", "e">>,
        <<"t", "y", "p", "e", "_", "f", "l", "a", "g">>,
        <<"s", "t", "a", "t", "e">>,
        <<"r", "e", "g", "i", "o", "n">> } }
    \cup { NotStr(7) }

\* the values of text cells, in the order of their strings
TextValues == <<<<"a", "l", "p", "h", "a">>, <<"b", "e", "t", "a">>>>

CellsOf(dtype) ==
    IF dtype = "float64" THEN { <<276>>, <<10000>>, <<150000>>, NaN }
    ELSE IF dtype = "bool" THEN { <<0>>, <<100>> }
    ELSE IF dtype \in {"object", "category"} THEN { <<1>>, <<2>>, NaN }
    ELSE IF dtype = "datetime64[ns]" THEN { <<1>>, <<2>> }
    ELSE { <<1>>, NaN }

Dtypes == {"float64", "bool", "object", "category", "datetime64[ns]", "timedelta64[ns]"}

Columns ==
    UNION { UNION { { [name |-> nm, dtype |-> dt, values |-> vs] : nm \in ColumnNames,
                                                                    vs \in [1..n -> CellsOf(dt)] }
                    : n \in 0..MaxRows }
            : dt \in Dtypes }

\* pandas.api.types
is_numeric_dtype(series) == series.dtype \in {"float64", "bool"}
is_bool_dtype(series) == series.dtype = "bool"

\* Series.dropna, nunique, min, max, mean, mode: null cells are skipped
dropna(values) == SelectSeq(values, LAMBDA v : v # NaN)

Present(values) == { values[i][1] : i \in { j \in 1..Len(values) : values[j] # NaN } }

nunique(values) == Cardinality(Present(values))

SeriesMin(values) ==
    IF Present(values) = {} THEN NaN
    ELSE <<CHOOSE m \in Present(values) : \A x \in Present(values) : m <= x>>

SeriesMax(values) ==
    IF Present(values) = {} THEN NaN
    ELSE <<CHOOSE m \in Present(values) : \A x \in Present(values) : m >= x>>

RECURSIVE SeriesSum(_)
SeriesSum(values) ==
    IF Len(values) = 0 THEN 0
    ELSE (IF values[1] = NaN THEN 0 ELSE values[1][1]) + SeriesSum(Tail(values))

\* the mean to two decimals (nearest; the cell values keep it off the ties)
SeriesMean(values) ==
    IF Present(values) = {} THEN NaN
    ELSE <<(2 * SeriesSum(values) + Len(dropna(values))) \div (2 * Len(dropna(values)))>>

CountOf(values, v) == Cardinality({ i \in 1..Len(values) : values[i] = <<v>> })

\* Series.mode(): the most frequent values, sorted
mode(values) ==
    { m \in Present(values) : \A x \in Present(values) : CountOf(values, m) >= CountOf(values, x) }

\* line 72
top_value(values) ==
    IF mode(values) = {} THEN <<"N", "/", "A">>
    ELSE TextValues[CHOOSE m \in mode(values) : \A x \in mode(values) : m <= x]

\* format specifications of the f-strings
RECURSIVE Group(_)
Group(ds) ==
    IF Len(ds) <= 3 THEN ds
    ELSE Group(SubSeq(ds, 1, Len(ds) - 3)) \o <<",">> \o SubSeq(ds, Len(ds) - 2, Len(ds))

TwoDigits(n) == <<Digit[(n \div 10) + 1], Digit[(n % 10) + 1]>>

nan == <<"n", "a", "n">>

\* round to an integer, ties to even
RoundHalfEven(h) ==
    IF h % 100 > 50 THEN (h \div 100) + 1
    ELSE IF h % 100 < 50 THEN h \div 100
    ELSE IF (h \div 100) % 2 = 0 THEN h \div 100
    ELSE (h \div 100) + 1

\* int(x): truncation
int(x) == x[1] \div 100

\* {x:.2f}
Format_2f(x) ==
    IF x = NaN THEN nan ELSE str(x[1] \div 100) \o <<".">> \o TwoDigits(x[1] % 100)

\* mutant: the value is shown in thousands
Format_Comma0f_Thousands(x) == IF x = NaN THEN nan ELSE Group(str(RoundHalfEven(x[1] \div 1000)))

\* {x:,.0f}
Format_Comma0f(x) == IF x = NaN THEN nan ELSE Group(str(RoundHalfEven(x[1])))

\* {x:,.2f}
Format_Comma2f(x) ==
    IF x = NaN THEN nan ELSE Group(str(x[1] \div 100)) \o <<".">> \o TwoDigits(x[1] % 100)

\* {n:,}
Format_Comma(n) == Group(str(n))

\* {x:.1f} of a percentage held in tenths
Format_1f(t) == str(t \div 10) \o <<".">> \o <<Digit[(t % 10) + 1]>>

\* str() of a Timestamp, opaque but for its order
Format_Timestamp(x) == IF x = NaN THEN <<"N", "a", "T">> ELSE <<"d", "a", "y">> \o str(x[1])

\* astype(str) of one cell
AsStr(dtype, v) ==
    IF dtype = "float64"
    THEN str(v[1] \div 100) \o <<".">> \o
         (IF v[1] % 10 = 0 THEN <<Digit[((v[1] % 100) \div 10) + 1]>> ELSE TwoDigits(v[1] % 100))
    ELSE IF dtype = "bool" THEN (IF v[1] = 0 THEN <<"F", "a", "l", "s", "e">> ELSE <<"T", "r", "u", "e">>)
    ELSE IF dtype \in {"object", "category"} THEN TextValues[v[1]]
    ELSE <<"d", "a", "y">> \o str(v[1])

Returned(template, args) == [raised |-> "", template |-> template, args |-> args]

Raised(type) == [raised |-> type, template |-> "", args |-> <<>>]

\* any(term in name_lower for term in terms)
AnyTermIn(terms, name_lower) == \E i \in 1..Len(terms) : contains(name_lower, terms[i])

\* lines 33-58: the keyword lists of the numeric chain, in the order of the chain
NumericTerms ==
    <<<<<<"y", "e", "a", "r">>, <<"y", "r">>>>,
      <<<<"q", "u", "a", "r", "t", "e", "r">>, <<"q", "t", "r">>, <<"q">>>>,
      <<<<"m", "o", "n", "t", "h">>, <<"m", "o", "n">>>>,
      <<<<"d", "a", "y">>, <<"d", "a", "t", "e">>>>,
      <<<<"r", "a", "t", "i", "o">>, <<"r", "a", "t", "e">>, <<"p", "e", "r", "c", "e", "n", "t">>, <<"p", "c", "t">>>>,
      <<<<"r", "e", "v", "e", "n", "u", "e">>, <<"s", "a", "l", "e", "s">>, <<"i", "n", "c", "o", "m", "e">>>>,
      <<<<"c", "o", "s", "t">>, <<"e", "x", "p", "e", "n", "s", "e">>, <<"e", "x", "p", "e", "n", "d", "i", "t", "u", "r", "e">>>>,
      <<<<"a", "s", "s", "e", "t">>, <<"l", "i", "a", "b", "i", "l", "i", "t", "y">>, <<"e", "q", "u", "i", "t", "y">>>>,
      <<<<"p", "r", "o", "f", "i", "t">>, <<"m", "a", "r", "g", "i", "n">>, <<"e", "a", "r", "n", "i", "n", "g", "s">>>>>>

\* lines 77-89: the keyword lists of the categorical chain, in the order of the chain
CategoricalTerms ==
    <<<<<<"i", "d">>, <<"c", "o", "d", "e">>, <<"k", "e", "y">>, <<"c", "a", "r", "r", "i", "e", "r">>, <<"t", "i", "c", "k", "e", "r">>, <<"s", "y", "m", "b", "o", "l">>>>,
      <<<<"n", "a", "m", "e">>, <<"t", "i", "t", "l", "e">>, <<"l", "a", "b", "e", "l">>>>,
      <<<<"c", "a", "t", "e", "g", "o", "r", "y">>, <<"t", "y", "p", "e">>, <<"c", "l", "a", "s", "s">>, <<"g", "r", "o", "u", "p">>>>,
      <<<<"s", "t", "a", "t", "u", "s">>, <<"s", "t", "a", "t", "e">>, <<"f", "l", "a", "g">>>>,
      <<<<"l", "o", "c", "a", "t", "i", "o", "n">>, <<"r", "e", "g", "i", "o", "n">>, <<"c", "i", "t", "y">>, <<"c", "o", "u", "n", "t", "r", "y">>>>>>

\* mutant: the revenue keywords are tested before the year keywords
NumericBranch_RevenueFirst(name_lower, unique_count, total_count) ==
    IF AnyTermIn(NumericTerms[6], name_lower) THEN 50
    ELSE IF AnyTermIn(NumericTerms[1], name_lower) THEN 34
    ELSE IF AnyTermIn(NumericTerms[2], name_lower) THEN 37
    ELSE IF AnyTermIn(NumericTerms[3], name_lower) THEN 40
    ELSE IF AnyTermIn(NumericTerms[4], name_lower) THEN 43
    ELSE IF AnyTermIn(NumericTerms[5], name_lower) THEN 47
    ELSE IF AnyTermIn(NumericTerms[7], name_lower) THEN 53
    ELSE IF AnyTermIn(NumericTerms[8], name_lower) THEN 56
    ELSE IF AnyTermIn(NumericTerms[9], name_lower) THEN 59
    ELSE IF unique_count = total_count \/ contains(name_lower, <<"i", "d">>) THEN 63
    ELSE 67

\* mutant: only the name makes a numeric column an identifier
NumericBranch_IdByNameOnly(name_lower, unique_count, total_count) ==
    IF AnyTermIn(NumericTerms[1], name_lower) THEN 34
    ELSE IF AnyTermIn(NumericTerms[2], name_lower) THEN 37
    ELSE IF AnyTermIn(NumericTerms[3], name_lower) THEN 40
    ELSE IF AnyTermIn(NumericTerms[4], name_lower) THEN 43
    ELSE IF AnyTermIn(NumericTerms[5], name_lower) THEN 47
    ELSE IF AnyTermIn(NumericTerms[6], name_lower) THEN 50
    ELSE IF AnyTermIn(NumericTerms[7], name_lower) THEN 53
    ELSE IF AnyTermIn(NumericTerms[8], name_lower) THEN 56
    ELSE IF AnyTermIn(NumericTerms[9], name_lower) THEN 59
    ELSE IF contains(name_lower, <<"i", "d">>) THEN 63
    ELSE 67

\* lines 33-67: the if/elif chain of the numeric branch; the value is the line of the
\* return statement that is reached
NumericBranch(name_lower, unique_count, total_count) ==
    IF AnyTermIn(NumericTerms[1], name_lower) THEN 34
    ELSE IF AnyTermIn(NumericTerms[2], name_lower) THEN 37
    ELSE IF AnyTermIn(NumericTerms[3], name_lower) THEN 40
    ELSE IF AnyTermIn(NumericTerms[4], name_lower) THEN 43
    ELSE IF AnyTermIn(NumericTerms[5], name_lower) THEN 47
    ELSE IF AnyTermIn(NumericTerms[6], name_lower) THEN 50
    ELSE IF AnyTermIn(NumericTerms[7], name_lower) THEN 53
    ELSE IF AnyTermIn(NumericTerms[8], name_lower) THEN 56
    ELSE IF AnyTermIn(NumericTerms[9], name_lower) THEN 59
    ELSE IF unique_count = total_count \/ contains(name_lower, <<"i", "d">>) THEN 63
    ELSE 67

\* lines 77-93: the if/elif chain of the categorical branch
CategoricalBranch(name_lower) ==
    IF AnyTermIn(CategoricalTerms[1], name_lower) THEN 78
    ELSE IF AnyTermIn(CategoricalTerms[2], name_lower) THEN 81
    ELSE IF AnyTermIn(CategoricalTerms[3], name_lower) THEN 84
    ELSE IF AnyTermIn(CategoricalTerms[4], name_lower) THEN 87
    ELSE IF AnyTermIn(CategoricalTerms[5], name_lower) THEN 90
    ELSE 93

\* line 50
RevenueReturn(min_val, max_val) ==
    Returned("Revenue/income metric. Range: {} to {}. Key performance indicator for financial performance evaluation.",
             <<Format_Comma0f(min_val), Format_Comma0f(max_val)>>)

\* the return statements of the numeric branch; int(nan) raises ValueError
NumericReturn(line, min_val, max_val, mean_val, unique_count) ==
    IF line = 34
    THEN IF min_val = NaN \/ max_val = NaN THEN Raised("ValueError")
         ELSE Returned("Temporal identifier representing calendar year. Range: {}-{}. Used for time-series analysis and year-over-year comparisons.",
                       <<str(int(min_val)), str(int(max_val))>>)
    ELSE IF line = 37
    THEN Returned("Quarterly time period identifier (1-4). Enables seasonal analysis and quarterly performance tracking.", <<>>)
    ELSE IF line = 40
    THEN Returned("Monthly identifier (1-12). Supports monthly trend analysis and seasonal pattern detection.", <<>>)
    ELSE IF line = 43
    THEN Returned("Daily identifier. Supports granular time-series analysis and day-level patterns.", <<>>)
    ELSE IF line = 47
    THEN Returned("Financial ratio/rate metric. Range: {} to {}, Avg: {}. Used for financial health assessment and comparative analysis.",
                  <<Format_2f(min_val), Format_2f(max_val), Format_2f(mean_val)>>)
    ELSE IF line = 50
    THEN RevenueReturn(min_val, max_val)
    ELSE IF line = 53
    THEN Returned("Cost/expense metric. Range: {} to {}. Used for cost analysis and budgeting.",
                  <<Format_Comma0f(min_val), Format_Comma0f(max_val)>>)
    ELSE IF line = 56
    THEN Returned("Balance sheet item. Range: {} to {}. Critical for financial position analysis.",
                  <<Format_Comma0f(min_val), Format_Comma0f(max_val)>>)
    ELSE IF line = 59
    THEN Returned("Profitability metric. Range: {} to {}. Measures business profitability and operational efficiency.",
                  <<Format_2f(min_val), Format_2f(max_val)>>)
    ELSE IF line = 63
    THEN Returned("Unique identifier with {} distinct values. Used for record identification and data joining.",
                  <<Format_Comma(unique_count)>>)
    ELSE Returned("Numeric metric. Range: {} to {}, Mean: {}. {} unique values.",
                  <<Format_Comma2f(min_val), Format_Comma2f(max_val), Format_Comma2f(mean_val),
                    Format_Comma(unique_count)>>)

\* the return statements of the categorical branch
CategoricalReturn(line, unique_count, top) ==
    IF line = 78
    THEN Returned("Categorical identifier. {} unique values (e.g., '{}'). Used for grouping and entity identification.",
                  <<str(unique_count), top>>)
    ELSE IF line = 81
    THEN Returned("Descriptive name/label field. {} unique values. Used for display and reference purposes.",
                  <<str(unique_count)>>)
    ELSE IF line = 84
    THEN Returned("Classification/category field. {} categories (most common: '{}'). Enables segmentation and comparative analysis.",
                  <<str(unique_count), top>>)
    ELSE IF line = 87
    THEN Returned("Status/state indicator. {} possible states (e.g., '{}'). Tracks entity state or condition.",
                  <<str(unique_count), top>>)
    ELSE IF line = 90
    THEN Returned("Geographic identifier. {} locations. Supports geographic analysis and regional comparisons.",
                  <<str(unique_count)>>)
    ELSE Returned("Categorical text field. {} unique values (most common: '{}'). Useful for grouping and filtering.",
                  <<str(unique_count), top>>)

\* lines 103-104, in tenths of a percent
true_pct(values) ==
    IF Len(values) > 0
    THEN (2000 * CountOf(values, 100) + Len(values)) \div (2 * Len(values))
    ELSE 0

\* lines 5-110; column_name.lower() raises AttributeError when the label is not a string
_analyze_column_intelligently(column_name, series) ==
    LET total_count == Len(series.values)
        unique_count == nunique(series.values)
    IN  IF is_numeric_dtype(series)
        THEN IF ~column_name.is_str THEN Raised("AttributeError")
             ELSE NumericReturn(NumericBranch(lower(column_name.text), unique_count, total_count),
                                SeriesMin(series.values), SeriesMax(series.values),
                                SeriesMean(series.values), unique_count)
        ELSE IF series.dtype = "object" \/ series.dtype = "category"
        THEN IF ~column_name.is_str THEN Raised("AttributeError")
             ELSE CategoricalReturn(CategoricalBranch(lower(column_name.text)), unique_count,
                                    top_value(series.values))
        ELSE IF series.dtype = "datetime64[ns]"
        THEN Returned("Datetime field. Range: {} to {}. Enables temporal analysis and time-based filtering.",
                      <<Format_Timestamp(SeriesMin(series.values)),
                        Format_Timestamp(SeriesMax(series.values))>>)
        ELSE IF is_bool_dtype(series)
        THEN Returned("Boolean flag. {}% True, {}% False. Used for binary classification and filtering.",
                      <<Format_1f(true_pct(series.values)),
                        Format_1f(1000 - true_pct(series.values))>>)
        ELSE Returned("Data field of type {}. {} unique values. Requires domain knowledge for interpretation.",
                      <<series.dtype, str(unique_count)>>)

\* Series.head(n)
head(s, n) == SubSeq(s, 1, Min(n, Len(s)))

\* lines 139-141
SampleText(series) ==
    join(<<",", " ">>,
         head([i \in 1..Len(dropna(series.values)) |-> AsStr(series.dtype, dropna(series.values)[i])], 3))

\* data[column]: one column, or a frame of all the columns of that label
Selected(frame, column) == SelectSeq(frame, LAMBDA c : c.name = column)

\* mutant: the exception of the analysis is not handled
DescribeColumn_NoHandler(frame, column) ==
    IF Len(Selected(frame, column)) > 1
    THEN Returned("Data field (analysis failed)", <<>>)
    ELSE _analyze_column_intelligently(column, Selected(frame, column)[1])

\* lines 131-143: one iteration of the loop.  A label carried by several columns selects
\* a frame: the analysis and the fallback both fail on it (AttributeError)
DescribeColumn(frame, column) ==
    IF Len(Selected(frame, column)) > 1
    THEN Returned("Data field (analysis failed)", <<>>)
    ELSE IF _analyze_column_intelligently(column, Selected(frame, column)[1]).raised = ""
    THEN _analyze_column_intelligently(column, Selected(frame, column)[1])
    ELSE Returned("Data field with sample values: {}", <<SampleText(Selected(frame, column)[1])>>)

\* descriptions[column] = description
DictSet(dict, key, value) ==
    IF \E i \in 1..Len(dict) : dict[i].column = key
    THEN [i \in 1..Len(dict) |-> IF dict[i].column = key
                                 THEN [column |-> key, description |-> value] ELSE dict[i]]
    ELSE Append(dict, [column |-> key, description |-> value])

\* DataFrame.empty: no column or no row
empty(frame) == Len(frame) = 0 \/ Len(frame[1].values) = 0

\* the columns set beside the first one in the frames of two columns
SecondColumns(first) ==
    { [name |-> Str(<<"a", "m", "o", "u", "n", "t">>), dtype |-> "float64",
       values |-> [i \in 1..Len(first.values) |-> <<10000>>]],
      [name |-> first.name, dtype |-> "object",
       values |-> [i \in 1..Len(first.values) |-> <<1>>]] }

Frames ==
    { <<>> } \cup { <<c>> : c \in Columns }
    \cup UNION { { <<c, d>> : d \in SecondColumns(c) } : c \in Columns }

ClassInit ==
    /\ entry \in {"generate_column_descriptions", "_analyze_column_intelligently"}
    /\ data \in Frames
    /\ entry = "_analyze_column_intelligently" => Len(data) = 1
    /\ col_no = 0 /\ descriptions = <<>> /\ analysis = <<>>
    /\ cpc = "start"

ClassUnchanged == UNCHANGED <<trimVars, loadVars, offlineVars, batchVars, ctxVars, pipelineVars>>

\* lines 123-128
ClassifyStart ==
    /\ cpc = "start" /\ entry = "generate_column_descriptions"
    /\ IF empty(data)
       THEN cpc' = "done" /\ col_no' = col_no
       ELSE cpc' = "loop" /\ col_no' = 1
    /\ UNCHANGED <<entry, data, descriptions, analysis>>
    /\ ClassUnchanged

\* lines 130-143
ClassifyColumn ==
    /\ cpc = "loop" /\ col_no <= Len(data)
    /\ IF DescribeColumn(data, data[col_no].name).raised = ""
       THEN /\ descriptions' = DictSet(descriptions, data[col_no].name,
                                       DescribeColumn(data, data[col_no].name))
            /\ col_no' = col_no + 1
            /\ cpc' = "loop"
       ELSE /\ cpc' = "raised"
            /\ UNCHANGED <<descriptions, col_no>>
    /\ UNCHANGED <<entry, data, analysis>>
    /\ ClassUnchanged

\* lines 145-146
ClassifyReturn ==
    /\ cpc = "loop" /\ col_no > Len(data)
    /\ cpc' = "done"
    /\ UNCHANGED <<entry, data, col_no, descriptions, analysis>>
    /\ ClassUnchanged

\* a direct call of _analyze_column_intelligently on one column
AnalyzeCall ==
    /\ cpc = "start" /\ entry = "_analyze_column_intelligently"
    /\ analysis' = <<_analyze_column_intelligently(data[1].name, data[1])>>
    /\ cpc' = IF _analyze_column_intelligently(data[1].name, data[1]).raised = ""
              THEN "done" ELSE "raised"
    /\ UNCHANGED <<entry, data, col_no, descriptions>>
    /\ ClassUnchanged

ClassNext ==
    \/ ClassifyStart
    \/ ClassifyColumn
    \/ ClassifyReturn
    \/ AnalyzeCall

(***************************************************************************)
(* Properties of the column classifier                                     *)
(***************************************************************************)
\* the semantic category that a description stands for
Category(description) ==
    IF description.template = "Temporal identifier representing calendar year. Range: {}-{}. Used for time-series analysis and year-over-year comparisons."
    THEN "temporal-year"
    ELSE IF description.template = "Quarterly time period identifier (1-4). Enables seasonal analysis and quarterly performance tracking."
    THEN "temporal-quarter"
    ELSE IF description.template = "Monthly identifier (1-12). Supports monthly trend analysis and seasonal pattern detection."
    THEN "temporal-month"
    ELSE IF description.template = "Daily identifier. Supports granular time-series analysis and day-level patterns."
    THEN "temporal-day"
    ELSE IF description.template = "Financial ratio/rate metric. Range: {} to {}, Avg: {}. Used for financial health assessment and comparative analysis."
    THEN "financial-ratio"
    ELSE IF description.template = "Revenue/income metric. Range: {} to {}. Key performance indicator for financial performance evaluation."
    THEN "financial-revenue"
    ELSE IF description.template = "Cost/expense metric. Range: {} to {}. Used for cost analysis and budgeting."
    THEN "financial-cost"
    ELSE IF description.template = "Balance sheet item. Range: {} to {}. Critical for financial position analysis."
    THEN "financial-balance-sheet"
    ELSE IF description.template = "Profitability metric. Range: {} to {}. Measures business profitability and operational efficiency."
    THEN "financial-profitability"
    ELSE IF description.template = "Unique identifier with {} distinct values. Used for record identification and data joining."
    THEN "identifier"
    ELSE IF description.template = "Numeric metric. Range: {} to {}, Mean: {}. {} unique values."
    THEN "generic-numeric"
    ELSE IF description.template = "Categorical identifier. {} unique values (e.g., '{}'). Used for grouping and entity identification."
    THEN "identifier"
    ELSE IF description.template = "Descriptive name/label field. {} unique values. Used for display and reference purposes."
    THEN "categorical-label"
    ELSE IF description.template = "Classification/category field. {} categories (most common: '{}'). Enables segmentation and comparative analysis."
    THEN "categorical-classification"
    ELSE IF description.template = "Status/state indicator. {} possible states (e.g., '{}'). Tracks entity state or condition."
    THEN "categorical-status"
    ELSE IF description.template = "Geographic identifier. {} locations. Supports geographic analysis and regional comparisons."
    THEN "categorical-geography"
    ELSE IF description.template = "Categorical text field. {} unique values (most common: '{}'). Useful for grouping and filtering."
    THEN "generic-categorical"
    ELSE IF description.template = "Datetime field. Range: {} to {}. Enables temporal analysis and time-based filtering."
    THEN "datetime"
    ELSE IF description.template = "Boolean flag. {}% True, {}% False. Used for binary classification and filtering."
    THEN "boolean-flag"
    ELSE "unresolved"

\* a frame as read_file returns it: at least one row, and labels made distinct by pandas
LoadedFrame(frame) ==
    /\ ~empty(frame)
    /\ \A i, j \in 1..Len(frame) : frame[i].name = frame[j].name => i = j

Generated == entry = "generate_column_descriptions" /\ cpc = "done"

Analyzed == entry = "_analyze_column_intelligently" /\ cpc = "done"

\* C13: for a loaded dataset generate_column_descriptions never raises and returns exactly
\* one description per column, in column order; a column whose analysis raises gets the
\* fallback description "Data field with sample values: ...".
C13_OneDescriptionPerColumn ==
    (entry = "generate_column_descriptions" /\ LoadedFrame(data))
    => /\ cpc # "raised"
       /\ cpc = "done" =>
             /\ Len(descriptions) = Len(data)
             /\ \A i \in 1..Len(data) :
                    /\ descriptions[i].column = data[i].name
                    /\ descriptions[i].description.raised = ""
                    /\ descriptions[i].description.template # ""
                    /\ _analyze_column_intelligently(data[i].name, data[i]).raised # ""
                       <=> descriptions[i].description.template = "Data field with sample values: {}"

C13_Witness ==
    /\ Generated /\ LoadedFrame(data) /\ Len(data) = 2
    /\ _analyze_column_intelligently(data[1].name, data[1]).raised = "ValueError"
    /\ descriptions[1].description.template = "Data field with sample values: {}"
    /\ Category(descriptions[2].description) = "generic-numeric"

IsNumeric(series) == series.dtype \in {"float64", "bool"}

IsText(series) == series.dtype \in {"object", "category"}

AllDistinct(series) == nunique(series.values) = Len(series.values)

\* C14 as stated: a column whose values are all distinct is an identifier, whatever its
\* name and whether it is numeric or text.
C14_DistinctIsIdentifier ==
    (Analyzed /\ (IsNumeric(data[1]) \/ IsText(data[1])) /\ AllDistinct(data[1])
        /\ Len(data[1].values) > 0)
    => Category(analysis[1]) = "identifier"

\* the lower-cased name holds a temporal or financial keyword of the numeric chain
HasNumericKeyword(name_lower) ==
    \/ AnyTermIn(NumericTerms[1], name_lower) \/ AnyTermIn(NumericTerms[2], name_lower)
    \/ AnyTermIn(NumericTerms[3], name_lower) \/ AnyTermIn(NumericTerms[4], name_lower)
    \/ AnyTermIn(NumericTerms[5], name_lower) \/ AnyTermIn(NumericTerms[6], name_lower)
    \/ AnyTermIn(NumericTerms[7], name_lower) \/ AnyTermIn(NumericTerms[8], name_lower)
    \/ AnyTermIn(NumericTerms[9], name_lower)

\* C14, amended: a numeric column whose values are all distinct is an identifier whatever
\* its name, unless the name holds a temporal or financial keyword, which takes
\* precedence; a text column is an identifier exactly when its name is identifier-like,
\* whatever its values.
C14_DistinctNumericIsIdentifier ==
    (Analyzed /\ data[1].name.is_str)
    => /\ (IsNumeric(data[1]) /\ AllDistinct(data[1]))
              => (Category(analysis[1]) = "identifier"
                     <=> ~HasNumericKeyword(lower(data[1].name.text)))
       /\ IsText(data[1])
              => (Category(analysis[1]) = "identifier"
                     <=> AnyTermIn(CategoricalTerms[1], lower(data[1].name.text)))

C14_Witness ==
    /\ Analyzed /\ data[1].dtype = "float64"
    /\ data[1].name = Str(<<"t", "r", "a", "n", "s", "a", "c", "t", "i", "o", "n", "_", "n", "o", "t", "e">>)
    /\ data[1].values = <<<<276>>, <<150000>>, <<10000>>>>
    /\ Category(analysis[1]) = "identifier"

\* the number a formatted field stands for, times 100; NaN for "nan"
RECURSIVE DigitsValue(_)
DigitsValue(ds) ==
    IF Len(ds) = 0 THEN 0
    ELSE 10 * DigitsValue(SubSeq(ds, 1, Len(ds) - 1))
         + ((CHOOSE d \in 1..10 : Digit[d] = ds[Len(ds)]) - 1)

FieldValue(field) ==
    LET plain == SelectSeq(field, LAMBDA c : c # ",")
        dot == find(plain, <<".">>, 1)
    IN  IF plain = nan THEN NaN
        ELSE IF dot = 0 THEN <<100 * DigitsValue(plain)>>
        ELSE <<100 * DigitsValue(SubSeq(plain, 1, dot - 1))
               + DigitsValue(SubSeq(plain, dot + 1, dot + 2))>>

\* field stands for x cut or rounded to an integer, or for x to two decimals
StandsFor(field, x) ==
    /\ FieldValue(field) = NaN <=> x = NaN
    /\ x # NaN => \/ FieldValue(field) = x
                  \/ /\ FieldValue(field)[1] % 100 = 0
                     /\ FieldValue(field)[1] - x[1] \in -99..50

ShowsRange(description, series) ==
    /\ Len(description.args) >= 2
    /\ StandsFor(description.args[1], SeriesMin(series.values))
    /\ StandsFor(description.args[2], SeriesMax(series.values))

\* C15 as stated: the description of a numeric column holds its minimum and its maximum,
\* whichever rule of the numeric chain matches.
C15_RangeAlwaysShown ==
    (Analyzed /\ IsNumeric(data[1])) => ShowsRange(analysis[1], data[1])

\* C15, amended: the description holds the minimum and the maximum exactly when the rule
\* matched is year (cut to integers), ratio, profitability or generic (two decimals),
\* revenue, cost or balance-sheet (rounded to integers); the quarter, month and day
\* descriptions hold no value and the identifier description holds the unique count only.
C15_RangeShownByRule ==
    (Analyzed /\ IsNumeric(data[1]))
    => /\ ShowsRange(analysis[1], data[1])
              <=> Category(analysis[1]) \in {"temporal-year", "financial-ratio",
                                             "financial-revenue", "financial-cost",
                                             "financial-balance-sheet",
                                             "financial-profitability", "generic-numeric"}
       /\ LET d == analysis[1]
              lo == SeriesMin(data[1].values)
              hi == SeriesMax(data[1].values)
          IN  /\ Category(d) = "temporal-year"
                    => /\ Len(d.args) = 2
                       /\ FieldValue(d.args[1])[1] % 100 = 0
                       /\ lo[1] - FieldValue(d.args[1])[1] \in 0..99
                       /\ hi[1] - FieldValue(d.args[2])[1] \in 0..99
              /\ Category(d) \in {"financial-revenue", "financial-cost", "financial-balance-sheet"}
                    => /\ Len(d.args) = 2
                       /\ FieldValue(d.args[1]) = NaN <=> lo = NaN
                       /\ lo # NaN => /\ FieldValue(d.args[1])[1] % 100 = 0
                                      /\ FieldValue(d.args[1])[1] - lo[1] \in -50..50
                                      /\ FieldValue(d.args[2])[1] - hi[1] \in -50..50
              /\ Category(d) \in {"financial-ratio", "financial-profitability", "generic-numeric"}
                    => /\ FieldValue(d.args[1]) = lo
                       /\ FieldValue(d.args[2]) = hi
              /\ Category(d) \in {"temporal-quarter", "temporal-month", "temporal-day"}
                    => d.args = <<>>
              /\ Category(d) = "identifier"
                    => d.args = <<Format_Comma(nunique(data[1].values))>>

C15_Witness ==
    /\ Analyzed /\ data[1].dtype = "float64"
    /\ data[1].name = Str(<<"r", "e", "v", "e", "n", "u", "e", "_", "2", "0", "2", "2">>)
    /\ data[1].values = <<<<276>>, <<150000>>, <<10000>>>>
    /\ analysis[1].args = <<<<"3">>, <<"1", ",", "5", "0", "0">>>>

\* C16: for a column of no rows the classifier returns a descriptor of the unresolved
\* category, whatever the name and the type of the column.
C16_EmptyIsUnresolved ==
    (cpc \in {"done", "raised"} /\ Len(data) = 1 /\ Len(data[1].values) = 0)
    => IF entry = "_analyze_column_intelligently"
       THEN analysis[1].raised = "" /\ Category(analysis[1]) = "unresolved"
       ELSE Len(descriptions) = 1 /\ Category(descriptions[1].description) = "unresolved"

\* the ordered rules of each chain as (keywords, category) pairs
NumericRules ==
    <<[terms |-> NumericTerms[1], category |-> "temporal-year"],
      [terms |-> NumericTerms[2], category |-> "temporal-quarter"],
      [terms |-> NumericTerms[3], category |-> "temporal-month"],
      [terms |-> NumericTerms[4], category |-> "temporal-day"],
      [terms |-> NumericTerms[5], category |-> "financial-ratio"],
      [terms |-> NumericTerms[6], category |-> "financial-revenue"],
      [terms |-> NumericTerms[7], category |-> "financial-cost"],
      [terms |-> NumericTerms[8], category |-> "financial-balance-sheet"],
      [terms |-> NumericTerms[9], category |-> "financial-profitability"]>>

TextRules ==
    <<[terms |-> CategoricalTerms[1], category |-> "identifier"],
      [terms |-> CategoricalTerms[2], category |-> "categorical-label"],
      [terms |-> CategoricalTerms[3], category |-> "categorical-classification"],
      [terms |-> CategoricalTerms[4], category |-> "categorical-status"],
      [terms |-> CategoricalTerms[5], category |-> "categorical-geography"]>>

Matching(rules, name_lower) == { i \in 1..Len(rules) : AnyTermIn(rules[i].terms, name_lower) }

\* the category of the first rule that matches, other when none does
FirstMatch(rules, name_lower, other) ==
    IF Matching(rules, name_lower) = {} THEN other
    ELSE rules[CHOOSE i \in Matching(rules, name_lower) :
                   \A j \in Matching(rules, name_lower) : i <= j].category

\* C20: inside a structural type the category is that of the first rule, in the fixed
\* order, whose keywords occur in the lower-cased name; for a numeric column the
\* identifier test and then the generic category come after the nine keyword rules, for a
\* text column the generic category comes after the five; revenue_2022 is financial-revenue.
C20_FirstMatchWins ==
    (Analyzed /\ data[1].name.is_str)
    => /\ IsNumeric(data[1])
          => Category(analysis[1]) =
                 FirstMatch(NumericRules, lower(data[1].name.text),
                            IF AllDistinct(data[1]) \/ contains(lower(data[1].name.text), <<"i", "d">>)
                            THEN "identifier" ELSE "generic-numeric")
       /\ IsText(data[1])
          => Category(analysis[1]) =
                 FirstMatch(TextRules, lower(data[1].name.text), "generic-categorical")
       /\ (IsNumeric(data[1]) /\ data[1].name = Str(<<"r", "e", "v", "e", "n", "u", "e", "_", "2", "0", "2", "2">>))
          => Category(analysis[1]) = "financial-revenue"

C20_Witness ==
    /\ Analyzed /\ data[1].dtype = "float64"
    /\ data[1].name = Str(<<"r", "e", "v", "e", "n", "u", "e", "_", "y", "e", "a", "r">>)
    /\ Cardinality(Matching(NumericRules, lower(data[1].name.text))) = 2
    /\ Category(analysis[1]) = "temporal-year"

(***************************************************************************)
(* Context from the input folder (context_collector.py 23-155)             *)
(***************************************************************************)
MaxBgLines == 2

\* smart_question_generator.DatasetContext: a dataclass of these six fields
DatasetContext(subject_area, analysis_objectives, target_audience, business_context, dataset_background, time_sensitivity) ==
    [subject_area |-> subject_area, analysis_objectives |-> analysis_objectives,
     target_audience |-> target_audience, business_context |-> business_context,
     dataset_background |-> dataset_background, time_sensitivity |-> time_sensitivity]

\* s[:n]
Prefix(s, n) == SubSeq(s, 1, Min(n, Len(s)))

\* any(keyword in line for keyword in keywords)
AnyKeywordIn(keywords, line) == \E i \in 1..Len(keywords) : contains(line, keywords[i])

\* mutant: a line without a subject keyword clears the subject
SubjectOf_Cleared(line, subject_area) ==
    IF AnyKeywordIn(<<<<"f", "i", "n", "a", "n", "c", "e">>>>, line) THEN "financial analysis" ELSE ""

\* lines 100-107
SubjectOf(line, subject_area) ==
    IF AnyKeywordIn(<<<<"f", "i", "n", "a", "n", "c", "i", "a", "l">>, <<"f", "i", "n", "a", "n", "c", "e">>, <<"a", "s", "s", "e", "t">>, <<"r", "e", "v", "e", "n", "u", "e">>, <<"p", "r", "o", "f", "i", "t">>>>, line)
    THEN "financial analysis"
    ELSE IF AnyKeywordIn(<<<<"s", "a", "l", "e", "s">>, <<"r", "e", "v", "e", "n", "u", "e">>, <<"p", "i", "p", "e", "l", "i", "n", "e">>, <<"c", "u", "s", "t", "o", "m", "e", "r">>>>, line)
    THEN "sales performance"
    ELSE IF AnyKeywordIn(<<<<"m", "a", "r", "k", "e", "t", "i", "n", "g">>, <<"c", "a", "m", "p", "a", "i", "g", "n">>, <<"b", "r", "a", "n", "d">>, <<"c", "u", "s", "t", "o", "m", "e", "r", " ", "a", "c", "q", "u", "i", "s", "i", "t", "i", "o", "n">>>>, line)
    THEN "marketing analytics"
    ELSE IF AnyKeywordIn(<<<<"o", "p", "e", "r", "a", "t", "i", "o", "n", "a", "l">>, <<"o", "p", "e", "r", "a", "t", "i", "o", "n", "s">>, <<"e", "f", "f", "i", "c", "i", "e", "n", "c", "y">>, <<"p", "r", "o", "c", "e", "s", "s">>>>, line)
    THEN "operational analytics"
    ELSE subject_area

\* mutant: the objective tests form one if/elif chain, a line gives one objective at most
ObjectivesOf_OneOnly(line) ==
    IF contains(line, <<"r", "i", "s", "k">>) /\ contains(line, <<"a", "s", "s", "e", "s", "s", "m", "e", "n", "t">>) THEN <<"risk assessment">>
    ELSE IF contains(line, <<"p", "e", "r", "f", "o", "r", "m", "a", "n", "c", "e">>) /\ (contains(line, <<"e", "v", "a", "l", "u", "a", "t", "i", "o", "n">>) \/ contains(line, <<"a", "n", "a", "l", "y", "s", "i", "s">>))
    THEN <<"performance evaluation">>
    ELSE IF contains(line, <<"t", "r", "e", "n", "d">>) THEN <<"trend analysis">>
    ELSE IF contains(line, <<"o", "p", "t", "i", "m", "i", "z", "a", "t", "i", "o", "n">>) THEN <<"optimization analysis">>
    ELSE <<>>

\* lines 110-117
ObjectivesOf(line) ==
    (IF contains(line, <<"r", "i", "s", "k">>) /\ contains(line, <<"a", "s", "s", "e", "s", "s", "m", "e", "n", "t">>)
     THEN <<"risk assessment">> ELSE <<>>)
    \o (IF contains(line, <<"p", "e", "r", "f", "o", "r", "m", "a", "n", "c", "e">>)
           /\ (contains(line, <<"e", "v", "a", "l", "u", "a", "t", "i", "o", "n">>) \/ contains(line, <<"a", "n", "a", "l", "y", "s", "i", "s">>))
        THEN <<"performance evaluation">> ELSE <<>>)
    \o (IF contains(line, <<"t", "r", "e", "n", "d">>) THEN <<"trend analysis">> ELSE <<>>)
    \o (IF contains(line, <<"o", "p", "t", "i", "m", "i", "z", "a", "t", "i", "o", "n">>) THEN <<"optimization analysis">> ELSE <<>>)

\* lines 120-125
AudienceOf(line, target_audience) ==
    IF contains(line, <<"e", "x", "e", "c", "u", "t", "i", "v", "e">>) THEN "executives"
    ELSE IF contains(line, <<"m", "a", "n", "a", "g", "e", "r">>) THEN "managers"
    ELSE IF contains(line, <<"a", "n", "a", "l", "y", "s", "t">>) THEN "analysts"
    ELSE target_audience

\* mutant: "low" is looked for before "urgent" and "high"
SensitivityOf_LowFirst(line, time_sensitivity) ==
    IF contains(line, <<"l", "o", "w">>) THEN "low"
    ELSE IF contains(line, <<"u", "r", "g", "e", "n", "t">>) \/ contains(line, <<"h", "i", "g", "h">>) THEN "high"
    ELSE time_sensitivity

\* lines 128-131
SensitivityOf(line, time_sensitivity) ==
    IF contains(line, <<"u", "r", "g", "e", "n", "t">>) \/ contains(line, <<"h", "i", "g", "h">>) THEN "high"
    ELSE IF contains(line, <<"l", "o", "w">>) THEN "low"
    ELSE time_sensitivity

\* lines 96-131: the loop over the lines, from line i on
RECURSIVE ParseLines(_, _, _)
ParseLines(ls, i, acc) ==
    IF i > Len(ls) THEN acc
    ELSE ParseLines(ls, i + 1,
             [subject_area |-> SubjectOf(strip(ls[i]), acc.subject_area),
              analysis_objectives |-> acc.analysis_objectives \o ObjectivesOf(strip(ls[i])),
              target_audience |-> AudienceOf(strip(ls[i]), acc.target_audience),
              time_sensitivity |-> SensitivityOf(strip(ls[i]), acc.time_sensitivity)])

\* lines 92, 138-139
BusinessContext(background_text, message_text) ==
    IF Len(message_text) > 0
    THEN <<"S", "e", "n", "i", "o", "r", " ", "I", "n", "s", "t", "r", "u", "c", "t", "i", "o", "n", "s", ":", " ">> \o Prefix(message_text, 200)
         \o <<".", ".", ".", " ", "|", " ", "B", "a", "c", "k", "g", "r", "o", "u", "n", "d", ":", " ">> \o Prefix(background_text, 300) \o <<".", ".", ".">>
    ELSE IF Len(background_text) > 500 THEN Prefix(background_text, 500) \o <<".", ".", ".">>
    ELSE background_text

\* lines 73-155
_parse_dataset_background(background_text, message_text) ==
    LET parsed == ParseLines(split(lower(background_text)), 1,
                             [subject_area |-> "general analysis", analysis_objectives |-> <<>>,
                              target_audience |-> "analysts", time_sensitivity |-> "medium"])
    IN  DatasetContext(parsed.subject_area,
                       IF parsed.analysis_objectives = <<>> THEN <<"general analysis">>
                       ELSE parsed.analysis_objectives,
                       parsed.target_audience,
                       BusinessContext(background_text, message_text),
                       background_text,
                       parsed.time_sensitivity)

\* lines 51-58: the stripped content of a file of the folder, "" when it is missing
ReadStripped(f) == IF f.exists THEN strip(f.text) ELSE <<>>

\* mutant: a background of exactly 50 characters is parsed too
Sufficient_AtLeast50(dataset_background) == Len(dataset_background) >= 50

\* line 61
Sufficient(dataset_background) == Len(dataset_background) > 0 /\ Len(dataset_background) > 50

\* open() or read() raises: the file cannot be read or decoded
Unreadable(folder) ==
    \/ folder.background.exists /\ ~folder.background.readable
    \/ folder.message.exists /\ ~folder.message.readable

\* the lines a background text is made of
BackgroundLines == {
    <<"F", "i", "n", "a", "n", "c", "i", "a", "l", " ", "r", "e", "p", "o", "r", "t">>,
    <<"s", "a", "l", "e", "s", " ", "p", "i", "p", "e", "l", "i", "n", "e">>,
    <<"c", "u", "s", "t", "o", "m", "e", "r", " ", "a", "c", "q", "u", "i", "s", "i", "t", "i", "o", "n", " ", "c", "a", "m", "p", "a", "i", "g", "n">>,
    <<"m", "a", "r", "k", "e", "t", "i", "n", "g", " ", "b", "r", "a", "n", "d", ",", " ", "l", "o", "w", " ", "p", "r", "i", "o", "r", "i", "t", "y">>,
    <<"o", "p", "e", "r", "a", "t", "i", "o", "n", "s", " ", "e", "f", "f", "i", "c", "i", "e", "n", "c", "y", ",", " ", "u", "r", "g", "e", "n", "t">>,
    <<"r", "e", "v", "e", "n", "u", "e", " ", "t", "r", "e", "n", "d", " ", "f", "o", "r", " ", "e", "x", "e", "c", "u", "t", "i", "v", "e", "s">>,
    <<"r", "i", "s", "k", " ", "a", "s", "s", "e", "s", "s", "m", "e", "n", "t", " ", "a", "n", "d", " ", "p", "e", "r", "f", "o", "r", "m", "a", "n", "c", "e", " ", "a", "n", "a", "l", "y", "s", "i", "s", " ", "f", "o", "r", " ", "m", "a", "n", "a", "g", "e", "r", "s">>,
    <<"s", "e", "e", " ", "t", "h", "e", " ", "h", "i", "g", "h", "l", "i", "g", "h", "t", "s", " ", "b", "e", "l", "o", "w">>,
    <<"s", "a", "l", "e", "s", " ", "p", "r", "o", "f", "i", "t", " ", "f", "o", "r", " ", "a", "n", "a", "l", "y", "s", "t", "s", " ", "a", "n", "d", " ", "m", "a", "n", "a", "g", "e", "r", "s">>,
    <<"t", "r", "e", "n", "d", " ", "o", "p", "t", "i", "m", "i", "z", "a", "t", "i", "o", "n", " ", "f", "o", "r", " ", "t", "h", "e", " ", "c", "u", "s", "t", "o", "m", "e", "r", " ", "a", "n", "a", "l", "y", "s", "t", ",", " ", "l", "o", "w">>,
    <<"n", "o", "t", "e", "s">> }

Filler(n) == [i \in 1..n |-> "x"]

\* text, followed when it is shorter by a line of filler that makes it n characters long
PadTo(text, n) == IF Len(text) + 1 < n THEN text \o <<NL>> \o Filler(n - Len(text) - 1) ELSE text

BackgroundTexts ==
    { <<>>, <<" ", NL>> }
    \cup UNION { { PadTo(join(<<NL>>, ls), n) : n \in {0, 50, 51} }
                 : ls \in UNION { [1..k -> BackgroundLines] : k \in 1..MaxBgLines } }
    \cup { PadTo(<<"n", "o", "t", "e", "s">>, n) : n \in {500, 501} }

MessageTexts == { <<>>, <<"u", "r", "g", "e", "n", "t", ":", " ", "s", "a", "l", "e", "s">>, Filler(201) }

TextFile(text) == [exists |-> TRUE, readable |-> TRUE, text |-> text]

NoFile == [exists |-> FALSE, readable |-> FALSE, text |-> <<>>]

BackgroundFiles ==
    { NoFile, [exists |-> TRUE, readable |-> FALSE, text |-> <<>>] }
    \cup { TextFile(t) : t \in BackgroundTexts }
    \cup { TextFile(<<" ", NL>> \o t \o <<NL>>) : t \in { PadTo(l, n) : l \in BackgroundLines, n \in {50, 51} } }

MessageFiles ==
    { NoFile, [exists |-> TRUE, readable |-> FALSE, text |-> <<>>] }
    \cup { TextFile(t) : t \in MessageTexts }

ContextInit ==
    /\ input_folder \in
          { [exists |-> FALSE, background |-> NoFile, message |-> NoFile] }
          \cup [exists : {TRUE}, background : BackgroundFiles, message : MessageFiles]
    /\ context = <<>>
    /\ xpc = "start"

ContextUnchanged == UNCHANGED <<trimVars, loadVars, offlineVars, batchVars, classVars, pipelineVars>>

\* lines 41-43: there is no input folder
ContextNoFolder ==
    /\ xpc = "start" /\ ~input_folder.exists
    /\ context' = None
    /\ xpc' = "done"
    /\ UNCHANGED input_folder
    /\ ContextUnchanged

\* lines 51-58, 69-71: reading a file raises, the exception is logged
ContextReadFails ==
    /\ xpc = "start" /\ input_folder.exists /\ Unreadable(input_folder)
    /\ context' = None
    /\ xpc' = "done"
    /\ UNCHANGED input_folder
    /\ ContextUnchanged

\* lines 61, 66-67: the background is missing, empty or too short
ContextInsufficient ==
    /\ xpc = "start" /\ input_folder.exists /\ ~Unreadable(input_folder)
    /\ ~Sufficient(ReadStripped(input_folder.background))
    /\ context' = None
    /\ xpc' = "done"
    /\ UNCHANGED input_folder
    /\ ContextUnchanged

\* lines 61-64: the background is parsed and the record returned
ContextParsed ==
    /\ xpc = "start" /\ input_folder.exists /\ ~Unreadable(input_folder)
    /\ Sufficient(ReadStripped(input_folder.background))
    /\ context' = <<_parse_dataset_background(ReadStripped(input_folder.background),
                                              ReadStripped(input_folder.message))>>
    /\ xpc' = "done"
    /\ UNCHANGED input_folder
    /\ ContextUnchanged

ContextNext ==
    \/ ContextNoFolder
    \/ ContextReadFails
    \/ ContextInsufficient
    \/ ContextParsed

(***************************************************************************)
(* Properties of the context extraction                                    *)
(***************************************************************************)
\* the background text as the code sees it: stripped, "" when there is no file
BackgroundSeen == ReadStripped(input_folder.background)

\* C17: read_input_folder_context returns None when the background is absent, empty or
\* of a stripped length of at most 50, whatever the message holds, and returns a record,
\* whose dataset_background is the stripped text, when the stripped background is longer
\* (and both files can be read).
C17_NoneUnlessLongBackground ==
    xpc = "done"
    => /\ (~input_folder.exists \/ ~input_folder.background.exists
             \/ Len(strip(input_folder.background.text)) <= 50)
          => context = None
       /\ (input_folder.exists /\ ~Unreadable(input_folder)
             /\ input_folder.background.exists
             /\ Len(strip(input_folder.background.text)) > 50)
          => /\ context # None
             /\ context[1].dataset_background = strip(input_folder.background.text)

C17_Witness ==
    /\ xpc = "done" /\ context # None
    /\ Len(BackgroundSeen) = 51
    /\ Len(input_folder.background.text) > 51
    /\ input_folder.message.exists /\ Len(input_folder.message.text) > 0

\* C18: every record returned has its subject_area among the five subject areas and its
\* time_sensitivity among high, medium, low; they are general analysis and medium when
\* no line of the background holds a trigger of the field.
C18_FieldsAlwaysSet ==
    (xpc = "done" /\ context # None)
    => /\ context[1].subject_area \in {"general analysis", "financial analysis",
                                       "sales performance", "marketing analytics",
                                       "operational analytics"}
       /\ context[1].time_sensitivity \in {"high", "medium", "low"}
       /\ LET ls == split(lower(BackgroundSeen))
          IN  /\ (\A i \in 1..Len(ls) : SubjectOf(ls[i], "none") = "none")
                    => context[1].subject_area = "general analysis"
              /\ (\A i \in 1..Len(ls) : ~\E w \in {<<"u", "r", "g", "e", "n", "t">>, <<"h", "i", "g", "h">>, <<"l", "o", "w">>} :
                                             contains(ls[i], w))
                    => context[1].time_sensitivity = "medium"

C18_Witness ==
    /\ xpc = "done" /\ context # None
    /\ context[1].subject_area = "general analysis"
    /\ context[1].time_sensitivity = "medium"

(***************************************************************************)
(* The item extraction as a state machine                                  *)
(***************************************************************************)
\* the state of the extraction loop, in the words of the four-state machine
MachineState ==
    IF tpc \notin {"start", "loop"} THEN "Done"
    ELSE IF Len(current_question) > 0 THEN "In-Item"
    ELSE IF Len(question_lines) = 0 THEN "Seeking-First-Number"
    ELSE "Between-Items"

\* optional whitespace, an integer, then "." or ")"
IntegerThenMark(line) == HeaderMatchEnd(line) # 0

Closed == IF Len(current_question) > 0
          THEN Append(question_lines, join(<<NL>>, current_question))
          ELSE question_lines

\* optional whitespace, an integer, "." or ")", then at least one whitespace character
MarkThenSpace(line) ==
    /\ IntegerThenMark(line)
    /\ HeaderMatchEnd(line) <= Len(line)
    /\ isspace(line[HeaderMatchEnd(line)])

\* one step of the four-state machine, for a given reading of "numbered line"
MachineStep(Numbered(_)) ==
    /\ InLoop =>
          LET line == lines[line_no]
          IN  /\ Numbered(line)
                    => /\ question_lines' = Closed
                       /\ current_question' = <<line>>
                       /\ MachineState' = "In-Item"
              /\ (~Numbered(line) /\ strip(line) = <<>> /\ MachineState = "In-Item")
                    => /\ question_lines' = Closed
                       /\ MachineState' = "Between-Items"
              /\ (~Numbered(line) /\ strip(line) # <<>> /\ MachineState = "In-Item")
                    => /\ current_question' = Append(current_question, line)
                       /\ question_lines' = question_lines
                       /\ MachineState' = "In-Item"
              /\ (~Numbered(line) /\ MachineState # "In-Item")
                    => UNCHANGED <<current_question, question_lines>>
    /\ (tpc = "loop" /\ line_no > Len(lines))
          => question_lines' = Closed /\ MachineState' = "Done"

\* C19 as stated: the extraction follows the four-state machine, where a numbered line is
\* an integer followed by "." or ")": a numbered line starts a new item in any state and
\* closes the open one; a blank line while In-Item closes the item and leads to
\* Between-Items; a non-blank line that is not numbered, while In-Item, is appended to the
\* item; the end of the input closes the open item; each closed item is recorded once,
\* in order.
C19_FourStateMachine == [][MachineStep(IntegerThenMark)]_vars

\* C19, amended: the same machine, where a numbered line is an integer followed by "." or
\* ")" and at least one whitespace character; a line such as "3.c" is not numbered.
C19_FourStateMachineSpaced == [][MachineStep(MarkThenSpace)]_vars

C19_Witness ==
    /\ tpc = "count" /\ MachineState = "Done"
    /\ Len(question_lines) = 2
    /\ \E i \in 1..Len(lines) : IntegerThenMark(lines[i]) /\ ~MarkThenSpace(lines[i])
    /\ \E i \in 1..Len(lines) : strip(lines[i]) = <<>>

(***************************************************************************)
(* Structural dispatch of the classifier (data_analyzer.py 23, 70, 96, 102)*)
(***************************************************************************)
\* C21 as stated: a column of boolean type is a boolean flag: its description gives the
\* percentages of True and False, and it gets no category of the numeric branch.
C21_BooleanIsBooleanFlag ==
    (Analyzed /\ data[1].dtype = "bool")
    => /\ Category(analysis[1]) = "boolean-flag"
       /\ analysis[1].args = <<Format_1f(true_pct(data[1].values)),
                               Format_1f(1000 - true_pct(data[1].values))>>

(***************************************************************************)
(* The line-by-line accumulation of _parse_dataset_background              *)
(***************************************************************************)
\* the trigger groups of the single-valued fields, in the order of the claim
SubjectGroups ==
    << [terms |-> <<<<"f", "i", "n", "a", "n", "c", "i", "a", "l">>, <<"f", "i", "n", "a", "n", "c", "e">>, <<"a", "s", "s", "e", "t">>, <<"r", "e", "v", "e", "n", "u", "e">>, <<"p", "r", "o", "f", "i", "t">>>>, value |-> "financial analysis"],
       [terms |-> <<<<"s", "a", "l", "e", "s">>, <<"r", "e", "v", "e", "n", "u", "e">>, <<"p", "i", "p", "e", "l", "i", "n", "e">>, <<"c", "u", "s", "t", "o", "m", "e", "r">>>>, value |-> "sales performance"],
       [terms |-> <<<<"m", "a", "r", "k", "e", "t", "i", "n", "g">>, <<"c", "a", "m", "p", "a", "i", "g", "n">>, <<"b", "r", "a", "n", "d">>, <<"c", "u", "s", "t", "o", "m", "e", "r", " ", "a", "c", "q", "u", "i", "s", "i", "t", "i", "o", "n">>>>, value |-> "marketing analytics"],
       [terms |-> <<<<"o", "p", "e", "r", "a", "t", "i", "o", "n", "a", "l">>, <<"o", "p", "e", "r", "a", "t", "i", "o", "n", "s">>, <<"e", "f", "f", "i", "c", "i", "e", "n", "c", "y">>, <<"p", "r", "o", "c", "e", "s", "s">>>>, value |-> "operational analytics"] >>

AudienceGroups ==
    << [terms |-> <<<<"e", "x", "e", "c", "u", "t", "i", "v", "e">>>>, value |-> "executives"],
       [terms |-> <<<<"m", "a", "n", "a", "g", "e", "r">>>>, value |-> "managers"],
       [terms |-> <<<<"a", "n", "a", "l", "y", "s", "t">>>>, value |-> "analysts"] >>

SensitivityGroups ==
    << [terms |-> <<<<"u", "r", "g", "e", "n", "t">>, <<"h", "i", "g", "h">>>>, value |-> "high"],
       [terms |-> <<<<"l", "o", "w">>>>, value |-> "low"] >>

\* the groups of a field that have a trigger in the line
Triggered(groups, line) == { g \in 1..Len(groups) : AnyKeywordIn(groups[g].terms, line) }

\* the lines that hold a trigger of the field
TriggerLines(groups, ls) == { i \in 1..Len(ls) : Triggered(groups, strip(ls[i])) # {} }

\* the value of the first group triggered in the last line that holds a trigger
LastLineWins(groups, ls, default) ==
    IF TriggerLines(groups, ls) = {} THEN default
    ELSE LET last == CHOOSE i \in TriggerLines(groups, ls) :
                        \A j \in TriggerLines(groups, ls) : j <= i
             first == CHOOSE g \in Triggered(groups, strip(ls[last])) :
                         \A h \in Triggered(groups, strip(ls[last])) : g <= h
         IN  groups[first].value

\* C22: subject area, target audience and time sensitivity of the record are each the
\* value of the last line of the background that holds a trigger of the field (the
\* default when no line does), and in that line the first trigger group in the fixed
\* order decides.
C22_LastTriggerLineWins ==
    (xpc = "done" /\ context # None)
    => LET ls == split(lower(BackgroundSeen))
       IN  /\ context[1].subject_area = LastLineWins(SubjectGroups, ls, "general analysis")
           /\ context[1].target_audience = LastLineWins(AudienceGroups, ls, "analysts")
           /\ context[1].time_sensitivity = LastLineWins(SensitivityGroups, ls, "medium")

\* two lines set the subject area, the last one holds triggers of two groups of the
\* subject and of the audience, and no trigger of the time sensitivity set by the first
C22_Witness ==
    /\ xpc = "done" /\ context # None
    /\ LET ls == split(lower(BackgroundSeen))
       IN  /\ Len(ls) = 2
           /\ Triggered(SubjectGroups, strip(ls[1])) = {4}
           /\ Triggered(SubjectGroups, strip(ls[2])) = {1, 2}
           /\ Triggered(AudienceGroups, strip(ls[2])) = {2, 3}
           /\ Triggered(SensitivityGroups, strip(ls[1])) = {1}
           /\ Triggered(SensitivityGroups, strip(ls[2])) = {}
    /\ context[1].subject_area = "financial analysis"
    /\ context[1].target_audience = "managers"
    /\ context[1].time_sensitivity = "high"

\* the objectives of the claim, in its order, each with the words a line must hold:
\* all of "every" and, when "some" is not empty, one of "some"
ObjectiveTriggers ==
    << [every |-> <<<<"r", "i", "s", "k">>, <<"a", "s", "s", "e", "s", "s", "m", "e", "n", "t">>>>, some |-> <<>>, value |-> "risk assessment"],
       [every |-> <<<<"p", "e", "r", "f", "o", "r", "m", "a", "n", "c", "e">>>>, some |-> <<<<"e", "v", "a", "l", "u", "a", "t", "i", "o", "n">>, <<"a", "n", "a", "l", "y", "s", "i", "s">>>>, value |-> "performance evaluation"],
       [every |-> <<<<"t", "r", "e", "n", "d">>>>, some |-> <<>>, value |-> "trend analysis"],
       [every |-> <<<<"o", "p", "t", "i", "m", "i", "z", "a", "t", "i", "o", "n">>>>, some |-> <<>>, value |-> "optimization analysis"] >>

TriggersObjective(line, t) ==
    /\ \A i \in 1..Len(t.every) : contains(line, t.every[i])
    /\ Len(t.some) > 0 => AnyKeywordIn(t.some, line)

\* the objectives one line triggers, in the order of ObjectiveTriggers
RECURSIVE LineObjectives(_, _)
LineObjectives(line, k) ==
    IF k > Len(ObjectiveTriggers) THEN <<>>
    ELSE (IF TriggersObjective(line, ObjectiveTriggers[k])
          THEN <<ObjectiveTriggers[k].value>> ELSE <<>>) \o LineObjectives(line, k + 1)

\* the objectives of the lines from line i on, concatenated in line order
RECURSIVE TextObjectives(_, _)
TextObjectives(ls, i) ==
    IF i > Len(ls) THEN <<>>
    ELSE LineObjectives(strip(ls[i]), 1) \o TextObjectives(ls, i + 1)

\* C23: the objectives of the record are the objectives triggered by the lines of the
\* background, concatenated in line order with duplicates kept; when no line triggers an
\* objective, and only then, they are the single objective general analysis; the list
\* is never empty.
C23_ObjectivesAccumulate ==
    (xpc = "done" /\ context # None)
    => LET triggered == TextObjectives(split(lower(BackgroundSeen)), 1)
       IN  /\ triggered # <<>> => context[1].analysis_objectives = triggered
           /\ context[1].analysis_objectives = <<"general analysis">> <=> triggered = <<>>
           /\ Len(context[1].analysis_objectives) > 0

\* two lines that trigger objectives, one of them twice, and one objective comes twice
C23_Witness ==
    /\ xpc = "done" /\ context # None
    /\ context[1].analysis_objectives
          = <<"trend analysis", "optimization analysis", "trend analysis">>

(***************************************************************************)
(* The order of the steps of read_file                                     *)
(***************************************************************************)
\* the steps of the claim, in its order
Steps == <<"existence", "regular-file", "size-ceiling", "confirmation", "extension", "load",
           "row-cap", "emptiness">>

StepNo(step) == CHOOSE k \in 1..Len(Steps) : Steps[k] = step

\* the step fails for the file, the arguments and the answer typed
StepFails(step) ==
    IF step = "existence" THEN ~file.exists
    ELSE IF step = "regular-file" THEN ~file.isfile
    ELSE IF step = "size-ceiling" THEN ~file.getsize_ok \/ file.size > MAX_FILE_SIZE_MB * MB
    ELSE IF step = "confirmation" THEN interactive /\ InWarningBand(file) /\ Declined
    ELSE IF step = "extension" THEN file.ext \notin {".csv", ".xlsx", ".json"}
    ELSE IF step = "load" THEN file.ext = ".json" \/ (file.ext = ".csv" /\ file.decodes = {})
    ELSE IF step = "row-cap" THEN FALSE
    ELSE Min(file.rows, RowLimit(max_rows)) = 0

\* the number of the first step that fails, 0 when none does
FirstFailing ==
    IF \E k \in 1..Len(Steps) : StepFails(Steps[k])
    THEN CHOOSE k \in 1..Len(Steps) :
            StepFails(Steps[k]) /\ \A j \in 1..(k - 1) : ~StepFails(Steps[j])
    ELSE 0

\* the message of the error a failing step raises
StepError(step) ==
    IF step = "existence" THEN "File not found"
    ELSE IF step = "regular-file" THEN "Path is not a file"
    ELSE IF step = "size-ceiling"
         THEN IF file.getsize_ok THEN "File too large" ELSE "Cannot check file size"
    ELSE IF step = "confirmation" THEN "User cancelled: File too large"
    ELSE IF step = "extension" THEN "Unsupported file type"
    ELSE IF step = "load"
         THEN IF file.ext = ".json" THEN "nrows can only be passed if lines=True"
              ELSE "read_csv() got an unexpected keyword argument 'errors'"
    ELSE "File is empty - no data to analyze"

NoneFailsBefore(step) == \A j \in 1..(StepNo(step) - 1) : ~StepFails(Steps[j])

\* C24: the steps of read_file run in the order existence, regular file, size ceiling,
\* confirmation (asked exactly when interactive and the size is in the warning band),
\* extension, load, row-cap warning, emptiness: a step leaves its trace (an answer typed,
\* a read attempted, a frame loaded, the warning) only when no earlier step fails, the
\* error raised is that of the first failing step, and a frame is returned only when no
\* step fails, and then it has at least one row.
C24_StepsInOrder ==
    lpc # "idle"
    => /\ prompts # <<>> => (NoneFailsBefore("confirmation") /\ interactive /\ InWarningBand(file))
       /\ tried # <<>> => /\ NoneFailsBefore("load")
                          /\ (interactive /\ InWarningBand(file)) => Len(prompts) = 1
       /\ df # <<>> => (tried # <<>> /\ NoneFailsBefore("row-cap"))
       /\ limit_warned => (df # <<>> /\ LimitReached)
       /\ outcome = "returned" => (lpc = "done" /\ FirstFailing = 0)
       /\ lpc = "done"
             => IF FirstFailing = 0
                THEN /\ outcome = "returned" /\ error = NoError
                     /\ df # <<>> /\ df[1] > 0
                     /\ limit_warned = LimitReached
                ELSE /\ outcome = "raised"
                     /\ error.msg = StepError(Steps[FirstFailing])
                     /\ FirstFailing < StepNo("confirmation") => prompts = <<>>
                     /\ FirstFailing < StepNo("load") => tried = <<>>
                     /\ FirstFailing < StepNo("row-cap") => (df = <<>> /\ ~limit_warned)
                     /\ FirstFailing = StepNo("emptiness") => limit_warned = LimitReached

\* the user declines for a file whose extension is unsupported and that holds no row:
\* the cancellation is raised and nothing is read
C24_Witness ==
    /\ lpc = "done" /\ interactive /\ InWarningBand(file) /\ Declined
    /\ StepFails("extension") /\ StepFails("emptiness")
    /\ outcome = "raised" /\ error.msg = "User cancelled: File too large"
    /\ tried = <<>> /\ df = <<>>

(***************************************************************************)
(* The Normalizer applied to its own output                                *)
(***************************************************************************)
\* lines 361-419 as a function of the arguments
_trim_questions_to_exact_count(text, n) ==
    Rebuild(HeaderLines(split(text), 1), TrimToCount(ItemsOf(text), n))

\* C25: the text returned is the value of the function for the arguments, and the
\* function applied to the text returned, with the same expected_count, returns it
\* unchanged.
C25_Idempotent ==
    TrimReturned
    => /\ result = _trim_questions_to_exact_count(result_text, expected_count)
       /\ _trim_questions_to_exact_count(result, expected_count) = result

\* a text with a header, a line dropped and more questions than expected: the first
\* application changes it, the second changes nothing
C25_Witness ==
    /\ TrimReturned
    /\ result # result_text
    /\ Len(header_lines) > 0 /\ strip(header_lines[1]) # <<>>
    /\ Len(ItemsOf(result_text)) > expected_count
    /\ expected_count = 2
    /\ _trim_questions_to_exact_count(result, expected_count) = result

(***************************************************************************)
(* What the Normalizer keeps of its input                                  *)
(***************************************************************************)
NonBlankLine(line) == strip(line) # <<>>

\* the lines of ls whose index is in the set, in their order
RECURSIVE LinesAt(_, _, _)
LinesAt(ls, i, indices) ==
    IF i > Len(ls) THEN <<>>
    ELSE (IF i \in indices THEN <<ls[i]>> ELSE <<>>) \o LinesAt(ls, i + 1, indices)

NonBlankLines(ls) == LinesAt(ls, 1, { i \in 1..Len(ls) : NonBlankLine(ls[i]) })

\* the index of the first line for which the end of the match is not 0, 0 without one
FirstHeaderMatch(ls) ==
    IF \E i \in 1..Len(ls) : HeaderMatchEnd(ls[i]) # 0
    THEN CHOOSE i \in 1..Len(ls) :
            HeaderMatchEnd(ls[i]) # 0 /\ \A j \in 1..(i - 1) : HeaderMatchEnd(ls[j]) = 0
    ELSE 0

FirstQuestionMatch(ls) ==
    IF \E i \in 1..Len(ls) : QuestionMatchEnd(ls[i]) # 0
    THEN CHOOSE i \in 1..Len(ls) :
            QuestionMatchEnd(ls[i]) # 0 /\ \A j \in 1..(i - 1) : QuestionMatchEnd(ls[j]) = 0
    ELSE 0

NoExcess == TrimReturned /\ Len(ItemsOf(result_text)) <= expected_count

\* C26 as stated: when no more than expected_count items are extracted, the non-blank
\* lines of the output are the non-blank lines of the input, each once, and the header
\* ends at the line where the first item starts.
C26_NoLineLost ==
    NoExcess
    => /\ NonBlankLines(split(result)) = NonBlankLines(split(result_text))
       /\ FirstHeaderMatch(split(result_text)) = FirstQuestionMatch(split(result_text))

\* line i precedes every line that starts with an integer and a mark
BeforeFirstMark(ls, i) == \A j \in 1..i : HeaderMatchEnd(ls[j]) = 0

\* line i is a numbered line or follows one without a blank line in between
InsideItem(ls, i) ==
    \E j \in 1..i : QuestionMatchEnd(ls[j]) # 0 /\ \A k \in j..i : NonBlankLine(ls[k])

\* C26, amended: when no more than expected_count items are extracted, the non-blank
\* lines of the output are, each once and in order, the non-blank lines of the input
\* that precede the first line starting with an integer and a mark (the header) or that
\* are inside an item (a numbered line and the non-blank lines that follow it up to the
\* next blank line); every other non-blank line is dropped.  The header never ends after
\* the line where the first item starts, and ends before it exactly when a line with an
\* integer and a mark without whitespace after it precedes the first item.
C26_KeptLines ==
    NoExcess
    => LET ls == split(result_text)
           kept == { i \in 1..Len(ls) :
                       NonBlankLine(ls[i]) /\ (BeforeFirstMark(ls, i) \/ InsideItem(ls, i)) }
       IN  /\ NonBlankLines(split(result)) = LinesAt(ls, 1, kept)
           /\ \A i \in 1..Len(ls) : ~(BeforeFirstMark(ls, i) /\ InsideItem(ls, i))
           /\ FirstQuestionMatch(ls) # 0
                 => /\ FirstHeaderMatch(ls) # 0
                    /\ FirstHeaderMatch(ls) <= FirstQuestionMatch(ls)
                    /\ FirstHeaderMatch(ls) < FirstQuestionMatch(ls)
                          <=> \E j \in 1..(FirstQuestionMatch(ls) - 1) :
                                  HeaderMatchEnd(ls[j]) # 0 /\ QuestionMatchEnd(ls[j]) = 0

\* a header, an item of two lines, a blank line and a line that is dropped
C26_Witness ==
    /\ NoExcess
    /\ LET ls == split(result_text)
       IN  /\ Len(ls) = 4
           /\ NonBlankLine(ls[1]) /\ BeforeFirstMark(ls, 1)
           /\ QuestionMatchEnd(ls[2]) # 0
           /\ ~NonBlankLine(ls[3])
           /\ NonBlankLine(ls[4]) /\ ~InsideItem(ls, 4)
           /\ NonBlankLines(split(result)) = <<ls[1], ls[2]>>

(***************************************************************************)
(* Offline results for a list of tasks (main.py 476-514)                   *)
(***************************************************************************)
MaxTasks == 2

\* line 492: the count of a task without an entry in question_counts
DefaultCount == 15

\* line 492: question_counts[i] if question_counts and i < len(question_counts) else 15
ExpectedCount(counts, i) ==
    IF counts # None /\ Len(counts[1]) > 0 /\ i <= Len(counts[1]) THEN counts[1][i]
    ELSE DefaultCount

\* mutant: Liabilities.csv is looked for before Assets.csv
DatasetNameOf_LiabilitiesFirst(description) ==
    IF contains(description, <<"L", "i", "a", "b", "i", "l", "i", "t", "i", "e", "s", ".", "c", "s", "v">>) THEN <<"L", "i", "a", "b", "i", "l", "i", "t", "i", "e", "s", ".", "c", "s", "v">>
    ELSE IF contains(description, <<"A", "s", "s", "e", "t", "s", ".", "c", "s", "v">>) THEN <<"A", "s", "s", "e", "t", "s", ".", "c", "s", "v">>
    ELSE IF contains(description, <<"T", "o", "p", "_", "1", "0", "_", "R", "a", "t", "i", "o", ".", "c", "s", "v">>) THEN <<"T", "o", "p", "_", "1", "0", "_", "R", "a", "t", "i", "o", ".", "c", "s", "v">>
    ELSE IF contains(lower(description), <<"c", "o", "m", "p", "a", "r", "i", "s", "o", "n">>) THEN <<"C", "r", "o", "s", "s", "-", "D", "a", "t", "a", "s", "e", "t", " ", "C", "o", "m", "p", "a", "r", "i", "s", "o", "n">>
    ELSE <<"U", "n", "k", "n", "o", "w", "n", " ", "D", "a", "t", "a", "s", "e", "t">>

\* lines 495-503
DatasetNameOf(description) ==
    IF contains(description, <<"A", "s", "s", "e", "t", "s", ".", "c", "s", "v">>) THEN <<"A", "s", "s", "e", "t", "s", ".", "c", "s", "v">>
    ELSE IF contains(description, <<"L", "i", "a", "b", "i", "l", "i", "t", "i", "e", "s", ".", "c", "s", "v">>) THEN <<"L", "i", "a", "b", "i", "l", "i", "t", "i", "e", "s", ".", "c", "s", "v">>
    ELSE IF contains(description, <<"T", "o", "p", "_", "1", "0", "_", "R", "a", "t", "i", "o", ".", "c", "s", "v">>) THEN <<"T", "o", "p", "_", "1", "0", "_", "R", "a", "t", "i", "o", ".", "c", "s", "v">>
    ELSE IF contains(lower(description), <<"c", "o", "m", "p", "a", "r", "i", "s", "o", "n">>) THEN <<"C", "r", "o", "s", "s", "-", "D", "a", "t", "a", "s", "e", "t", " ", "C", "o", "m", "p", "a", "r", "i", "s", "o", "n">>
    ELSE <<"U", "n", "k", "n", "o", "w", "n", " ", "D", "a", "t", "a", "s", "e", "t">>

\* lines 529, 546, 563: the keywords "Assets", "Liabilities", "Ratio" that a name contains
KeywordsIn(name) ==
    (IF contains(name, <<"A", "s", "s", "e", "t", "s">>) THEN {"Assets"} ELSE {})
    \cup (IF contains(name, <<"L", "i", "a", "b", "i", "l", "i", "t", "i", "e", "s">>) THEN {"Liabilities"} ELSE {})
    \cup (IF contains(name, <<"R", "a", "t", "i", "o">>) THEN {"Ratio"} ELSE {})

\* lines 505-509
OfflineResultOf(description, count) ==
    IF contains(lower(description), <<"c", "o", "m", "p", "a", "r", "i", "s", "o", "n">>)
    THEN _generate_offline_comparison_result(count)
    ELSE _generate_offline_individual_result(KeywordsIn(DatasetNameOf(description)), count)

\* the descriptions a task is given
Descriptions == {
    <<"A", "s", "s", "e", "t", "s", ".", "c", "s", "v">>,
    <<"L", "i", "a", "b", "i", "l", "i", "t", "i", "e", "s", ".", "c", "s", "v", " ", "a", "n", "d", " ", "A", "s", "s", "e", "t", "s", ".", "c", "s", "v">>,
    <<"T", "o", "p", "_", "1", "0", "_", "R", "a", "t", "i", "o", ".", "c", "s", "v", ",", " ", "L", "i", "a", "b", "i", "l", "i", "t", "i", "e", "s", ".", "c", "s", "v">>,
    <<"T", "o", "p", "_", "1", "0", "_", "R", "a", "t", "i", "o", ".", "c", "s", "v">>,
    <<"C", "o", "m", "p", "a", "r", "i", "s", "o", "n", " ", "o", "f", " ", "A", "s", "s", "e", "t", "s", ".", "c", "s", "v">>,
    <<"a", " ", "C", "O", "M", "P", "A", "R", "I", "S", "O", "N">>,
    <<"A", "s", "s", "e", "t", "s", " ", "o", "v", "e", "r", "v", "i", "e", "w">>,
    <<"s", "a", "l", "e", "s", ".", "c", "s", "v">> }

RequestedCounts == {1, 12}

ResultsUnchanged ==
    UNCHANGED <<trimVars, loadVars, offlineVars, batchVars, classVars, ctxVars, historyVars>>

ResultsInit ==
    /\ tasks \in UNION { [1..n -> Descriptions] : n \in 0..MaxTasks }
    /\ question_counts \in {None} \cup { <<c>> : c \in UNION { [1..n -> RequestedCounts] : n \in 0..MaxTasks } }
    /\ task_no = 0 /\ results = <<>>
    /\ rpc = "start"

\* lines 484-485
ResultsStart ==
    /\ rpc = "start"
    /\ results' = <<>>
    /\ task_no' = 1
    /\ rpc' = "loop"
    /\ UNCHANGED <<tasks, question_counts>>
    /\ UNCHANGED mainVars
    /\ ResultsUnchanged

\* lines 487-512: one task
ResultsTask ==
    /\ rpc = "loop" /\ task_no <= Len(tasks)
    /\ results' = Append(results,
                         [count |-> ExpectedCount(question_counts, task_no),
                          text |-> OfflineResultOf(tasks[task_no],
                                                   ExpectedCount(question_counts, task_no))])
    /\ task_no' = task_no + 1
    /\ UNCHANGED <<tasks, question_counts, rpc>>
    /\ UNCHANGED mainVars
    /\ ResultsUnchanged

\* line 514
ResultsReturn ==
    /\ rpc = "loop" /\ task_no > Len(tasks)
    /\ rpc' = "done"
    /\ UNCHANGED <<tasks, question_counts, task_no, results>>
    /\ UNCHANGED mainVars
    /\ ResultsUnchanged

ResultsNext ==
    \/ ResultsStart
    \/ ResultsTask
    \/ ResultsReturn

(***************************************************************************)
(* Properties of the offline results                                       *)
(***************************************************************************)
\* the template set a returned text was cut from: the comparison set is known by its
\* header, an individual set by the body of its first question
TemplateSetOf(text) ==
    IF startswith(text, ComparisonHeader) THEN "comparison"
    ELSE IF ~startswith(text, IndividualHeader \o <<NL, NL, "1", ".", " ">>) THEN "none"
    ELSE LET body == text[Len(IndividualHeader) + 6]
         IN  IF body = "a" THEN "Assets"
             ELSE IF body = "b" THEN "Liabilities"
             ELSE IF body = "c" THEN "Ratio"
             ELSE "generic"

\* the template set the claim gives to a description
ClaimedSet(description) ==
    IF contains(lower(description), <<"c", "o", "m", "p", "a", "r", "i", "s", "o", "n">>) THEN "comparison"
    ELSE IF contains(description, <<"A", "s", "s", "e", "t", "s", ".", "c", "s", "v">>) THEN "Assets"
    ELSE IF contains(description, <<"L", "i", "a", "b", "i", "l", "i", "t", "i", "e", "s", ".", "c", "s", "v">>) THEN "Liabilities"
    ELSE IF contains(description, <<"T", "o", "p", "_", "1", "0", "_", "R", "a", "t", "i", "o", ".", "c", "s", "v">>) THEN "Ratio"
    ELSE "generic"

HasEntry(i) == question_counts # None /\ i <= Len(question_counts[1])

\* C27: _generate_offline_results returns one result per task, in task order; the count
\* asked for task i is question_counts[i] when there is such an entry and 15 otherwise;
\* a task whose description holds "comparison" in any case gets the comparison set even
\* when it names a dataset file, every other task the individual set of the first of
\* Assets.csv, Liabilities.csv, Top_10_Ratio.csv that its description names, and the
\* generic set when it names none.
C27_OneResultPerTask ==
    /\ rpc \in {"loop", "done"} => (Len(results) = task_no - 1 /\ Len(results) <= Len(tasks))
    /\ rpc = "done" => Len(results) = Len(tasks)
    /\ \A i \in 1..Len(results) :
           /\ results[i].count = (IF HasEntry(i) THEN question_counts[1][i] ELSE 15)
           /\ TemplateSetOf(results[i].text) = ClaimedSet(tasks[i])
           /\ results[i].text = (IF ClaimedSet(tasks[i]) = "comparison"
                                 THEN _generate_offline_comparison_result(results[i].count)
                                 ELSE _generate_offline_individual_result(
                                          {ClaimedSet(tasks[i])} \ {"generic"}, results[i].count))

\* a comparison task that names a dataset file, with its own count, followed by a task
\* that names two files and has no entry in question_counts
C27_Witness ==
    /\ rpc = "done" /\ Len(tasks) = 2
    /\ question_counts # None /\ Len(question_counts[1]) = 1
    /\ contains(tasks[1], <<"A", "s", "s", "e", "t", "s", ".", "c", "s", "v">>) /\ ClaimedSet(tasks[1]) = "comparison"
    /\ contains(tasks[2], <<"A", "s", "s", "e", "t", "s", ".", "c", "s", "v">>) /\ contains(tasks[2], <<"L", "i", "a", "b", "i", "l", "i", "t", "i", "e", "s", ".", "c", "s", "v">>)
    /\ TemplateSetOf(results[1].text) = "comparison" /\ results[1].count = 12
    /\ TemplateSetOf(results[2].text) = "Assets" /\ results[2].count = 15

(***************************************************************************)
(* main, from the loading of the datasets to the task results              *)
(* (main.py 876-1033)                                                      *)
(***************************************************************************)
MaxMainPaths == 2

\* mutant: rate limiting is never detected
_detect_rate_limiting_Never == FALSE

\* lines 470-474
_detect_rate_limiting == TRUE

\* lines 1017-1019: one count per individual task, then the count of the comparison
QuestionCounts ==
    [i \in 1..Len(individual_tasks) |-> individual_question_count]
    \o (IF comparison_task # None THEN <<comparison_question_count>> ELSE <<>>)

\* lines 996-1000
AllTasks == individual_tasks \o comparison_task

\* data_analyzer.generate_summary (149-183), for a frame known by its number of rows
generate_summary(rows) == [rows |-> rows]

MainUnchanged == UNCHANGED <<trimVars, offlineVars, classVars, ctxVars, historyVars>>

MainInit ==
    /\ file_paths \in UNION { [1..n -> BatchPaths] : n \in 0..MaxMainPaths }
    /\ path_no = 0 /\ datasets = <<>> /\ loads = <<>> /\ skipped = <<>> /\ bpc = "idle"
    /\ individual_question_count = 0 /\ comparison_question_count = 0
    /\ dataset_summaries = <<>> /\ summary_no = 0
    /\ individual_tasks = <<>> /\ comparison_task = <<>>
    /\ task_results = <<>> /\ generator = "none"
    /\ mpc = "start"

\* lines 887-890: without a path main returns
MainNoPaths ==
    /\ mpc = "start" /\ Len(file_paths) = 0
    /\ mpc' = "exit"
    /\ UNCHANGED <<individual_question_count, comparison_question_count, dataset_summaries,
                   summary_no, individual_tasks, comparison_task, task_results, generator>>
    /\ UNCHANGED <<batchVars, loadVars, resultsVars>>
    /\ MainUnchanged

\* line 893: process_datasets(file_paths) is called
MainLoad ==
    /\ mpc = "start" /\ Len(file_paths) > 0
    /\ bpc' = "start"
    /\ mpc' = "loading"
    /\ UNCHANGED <<file_paths, path_no, datasets, loads, skipped>>
    /\ UNCHANGED <<individual_question_count, comparison_question_count, dataset_summaries,
                   summary_no, individual_tasks, comparison_task, task_results, generator>>
    /\ UNCHANGED <<loadVars, resultsVars>>
    /\ MainUnchanged

\* lines 894-898: no dataset was loaded, main returns
MainNoDatasets ==
    /\ mpc = "loading" /\ bpc = "done" /\ Len(datasets) = 0
    /\ mpc' = "exit"
    /\ UNCHANGED <<individual_question_count, comparison_question_count, dataset_summaries,
                   summary_no, individual_tasks, comparison_task, task_results, generator>>
    /\ UNCHANGED <<batchVars, loadVars, resultsVars>>
    /\ MainUnchanged

\* lines 907-933: the counts are those of the arguments or of the user
MainCounts ==
    /\ mpc = "loading" /\ bpc = "done" /\ Len(datasets) > 0
    /\ individual_question_count' \in RequestedCounts
    /\ comparison_question_count' \in {0, 1}
    /\ dataset_summaries' = <<>>
    /\ summary_no' = 1
    /\ mpc' = "summaries"
    /\ UNCHANGED <<individual_tasks, comparison_task, task_results, generator>>
    /\ UNCHANGED <<batchVars, loadVars, resultsVars>>
    /\ MainUnchanged

\* lines 941-955: the summary of one dataset, or the error record when its analysis
\* raises, is stored under the name of the dataset
MainSummary ==
    /\ mpc = "summaries" /\ summary_no <= Len(datasets)
    /\ \E summary \in { generate_summary(datasets[summary_no].rows),
                         [error |-> "Exception", name |-> datasets[summary_no].name] } :
           dataset_summaries' = DictSet(dataset_summaries, datasets[summary_no].name, summary)
    /\ summary_no' = summary_no + 1
    /\ UNCHANGED <<individual_question_count, comparison_question_count, individual_tasks,
                   comparison_task, task_results, generator, mpc>>
    /\ UNCHANGED <<batchVars, loadVars, resultsVars>>
    /\ MainUnchanged

\* lines 962-993: the tasks are what create_smart_tasks and create_smart_comparison_task
\* return, a comparison task being asked for only when its count is positive
MainTasks ==
    /\ mpc = "summaries" /\ summary_no > Len(datasets)
    /\ individual_tasks' \in { <<>>, [i \in 1..Len(datasets) |-> <<"A", "s", "s", "e", "t", "s", ".", "c", "s", "v">>] }
    /\ comparison_task' \in (IF comparison_question_count > 0
                               THEN { None, <<<<"C", "o", "m", "p", "a", "r", "i", "s", "o", "n", " ", "o", "f", " ", "A", "s", "s", "e", "t", "s", ".", "c", "s", "v">>>> }
                               ELSE { None })
    /\ mpc' = "tasks"
    /\ UNCHANGED <<individual_question_count, comparison_question_count, dataset_summaries,
                   summary_no, task_results, generator>>
    /\ UNCHANGED <<batchVars, loadVars, resultsVars>>
    /\ MainUnchanged

\* lines 1004-1008: there is no task to run
MainNoTasks ==
    /\ mpc = "tasks" /\ Len(AllTasks) = 0
    /\ task_results' = <<>>
    /\ mpc' = "report"
    /\ UNCHANGED <<individual_question_count, comparison_question_count, dataset_summaries,
                   summary_no, individual_tasks, comparison_task, generator>>
    /\ UNCHANGED <<batchVars, loadVars, resultsVars>>
    /\ MainUnchanged

\* lines 1009-1031: the tasks are handed to _generate_offline_results or to
\* run_crew_standard, whose results are the texts of the external service
MainExecute ==
    /\ mpc = "tasks" /\ Len(AllTasks) > 0
    /\ IF _detect_rate_limiting
       THEN /\ tasks' = AllTasks
            /\ question_counts' = <<QuestionCounts>>
            /\ task_no' = 0 /\ results' = <<>>
            /\ rpc' = "start"
            /\ mpc' = "offline"
            /\ UNCHANGED <<task_results, generator>>
       ELSE /\ task_results' = [i \in 1..Len(AllTasks) |-> <<>>]
            /\ generator' = "run_crew_standard"
            /\ mpc' = "report"
            /\ UNCHANGED resultsVars
    /\ UNCHANGED <<individual_question_count, comparison_question_count, dataset_summaries,
                   summary_no, individual_tasks, comparison_task>>
    /\ UNCHANGED <<batchVars, loadVars>>
    /\ MainUnchanged

\* line 1025: _generate_offline_results has returned
MainOfflineResults ==
    /\ mpc = "offline" /\ rpc = "done"
    /\ task_results' = [i \in 1..Len(results) |-> results[i].text]
    /\ generator' = "_generate_offline_results"
    /\ mpc' = "report"
    /\ UNCHANGED <<individual_question_count, comparison_question_count, dataset_summaries,
                   summary_no, individual_tasks, comparison_task>>
    /\ UNCHANGED <<batchVars, loadVars, resultsVars>>
    /\ MainUnchanged

MainNext ==
    \/ MainNoPaths
    \/ MainLoad
    \/ MainNoDatasets
    \/ MainCounts
    \/ MainSummary
    \/ MainTasks
    \/ MainNoTasks
    \/ MainExecute
    \/ MainOfflineResults
    \/ BatchNext
    \/ ResultsNext

(***************************************************************************)
(* Properties of main                                                      *)
(***************************************************************************)
Summarised == mpc \in {"tasks", "offline", "report"}

\* C28 as stated: once the summaries are generated, dataset_summaries holds one entry
\* per loaded dataset, whatever the paths are.
C28_OneSummaryPerDataset ==
    Summarised => Len(dataset_summaries) = Len(datasets)

(***************************************************************************)
(* Where the task results of main come from                                *)
(***************************************************************************)
TaskExecuted == mpc = "report" /\ Len(AllTasks) > 0

MaxSaves == 11

HistoryLimit == 10

\* the contexts that are saved
Contexts == { [subject_area |-> "financial analysis"], [subject_area |-> "sales analytics"] }

\* the records that earlier runs have left in the file, the oldest first
EarlierRecords(k) ==
    [i \in 1..k |-> [context |-> [subject_area |-> "general"], timestamp |-> i - k - 1]]

\* what the file system holds at context_file before the first call
HistoryFiles ==
    { [kind |-> "absent", records |-> <<>>],
      [kind |-> "unparseable", records |-> <<>>],
      [kind |-> "not a list", records |-> <<>>] }
    \cup { [kind |-> "list", records |-> EarlierRecords(k)] : k \in {0, 1, HistoryLimit - 1} }

\* mutant: the first records are kept
FirstRecords(s, k) ==
    IF Len(s) > k THEN SubSeq(s, 1, k) ELSE s

\* line 733: s[-k:]
LastRecords(s, k) ==
    IF Len(s) > k THEN SubSeq(s, Len(s) - k + 1, Len(s)) ELSE s

\* lines 720-737: the file after _save_context; a file that is absent or that json.load
\* cannot parse counts as an empty list, and when the file holds JSON that is no list,
\* append raises, the exception is logged (741-742) and the file is left as it is
_save_context(f, context_data) ==
    IF f.kind = "not a list" THEN f
    ELSE [kind |-> "list",
          records |-> LastRecords(Append(IF f.kind = "list" THEN f.records ELSE <<>>,
                                         context_data),
                                  HistoryLimit)]

\* lines 746-766: the context of the last record, None when there is none or on any error
load_recent_context(f) ==
    IF f.kind = "list" /\ Len(f.records) > 0 THEN <<f.records[Len(f.records)].context>>
    ELSE None

HistoryUnchanged ==
    UNCHANGED <<trimVars, loadVars, offlineVars, batchVars, classVars, ctxVars, resultsVars,
                mainVars>>

HistoryInit ==
    /\ initial_file \in HistoryFiles
    /\ context_file = initial_file
    /\ saved = <<>>
    /\ recent = None
    /\ hpc = "ready"

\* lines 714-742: one call of _save_context; the timestamp is the time of the call
HistorySave ==
    /\ hpc \in {"ready", "saved", "loaded"} /\ Len(saved) < MaxSaves
    /\ \E c \in Contexts :
          LET context_data == [context |-> c, timestamp |-> Len(saved) + 1]
          IN  /\ context_file' = _save_context(context_file, context_data)
              /\ saved' = Append(saved, context_data)
    /\ hpc' = "saved"
    /\ UNCHANGED <<initial_file, recent>>
    /\ HistoryUnchanged

\* lines 744-766: one call of load_recent_context
HistoryLoad ==
    /\ hpc \in {"ready", "saved"}
    /\ recent' = load_recent_context(context_file)
    /\ hpc' = "loaded"
    /\ UNCHANGED <<context_file, initial_file, saved>>
    /\ HistoryUnchanged

HistoryNext ==
    \/ HistorySave
    \/ HistoryLoad

(***************************************************************************)
(* Properties of the history file                                          *)
(***************************************************************************)
\* every context saved so far, the oldest first: the records of the file the calls
\* started from, then the records of the calls
EverSaved ==
    (IF initial_file.kind = "list" THEN initial_file.records ELSE <<>>) \o saved

\* C30: after any sequence of _save_context calls that starts from an absent or a valid
\* history file, the file holds the min(n, 10) most recently saved of the n contexts
\* saved so far, in save order, the last record being the most recent save, which is
\* what load_recent_context then returns; when the file the calls start from cannot be
\* parsed, the first call leaves the new record alone in it.
C30_LastTenSaved ==
    (hpc \in {"saved", "loaded"} /\ Len(saved) > 0
     /\ initial_file.kind \in {"absent", "list", "unparseable"})
    => /\ context_file.kind = "list"
       /\ Len(context_file.records) <= 10
       /\ Len(context_file.records) = Min(Len(EverSaved), 10)
       /\ \A i \in 1..Len(context_file.records) :
             context_file.records[i]
                = EverSaved[Len(EverSaved) - Len(context_file.records) + i]
       /\ context_file.records[Len(context_file.records)] = saved[Len(saved)]
       /\ load_recent_context(context_file) = <<saved[Len(saved)].context>>
       /\ (initial_file.kind = "unparseable" /\ Len(saved) = 1)
          => context_file.records = <<saved[1]>>

C30_Witness ==
    /\ hpc = "saved"
    /\ initial_file.kind = "list" /\ Len(initial_file.records) = 9
    /\ Len(saved) = 3
    /\ Len(context_file.records) = 10
    /\ context_file.records[1] = initial_file.records[3]
    /\ context_file.records[10] = saved[3]

(***************************************************************************)
(* Specifications: one per component, the other components stay idle.      *)
(***************************************************************************)
TrimOnly == tpc = "idle" /\ result_text = <<>> /\ expected_count = 0 /\ task_header = <<>> /\ TrimIdle

InitLoad == LoadInit /\ TrimOnly /\ OfflineIdle /\ BatchIdle /\ ClassIdle /\ ContextIdle /\ PipelineIdle

SpecLoad == InitLoad /\ [][LoadNext]_vars

InitOffline == OfflineInit /\ TrimOnly /\ LoadIdle /\ BatchIdle /\ ClassIdle /\ ContextIdle /\ PipelineIdle

InitBatch == BatchInit /\ LoadIdle /\ TrimOnly /\ OfflineIdle /\ ClassIdle /\ ContextIdle /\ PipelineIdle

SpecBatch == InitBatch /\ [][BatchNext]_vars

InitClass == ClassInit /\ TrimOnly /\ LoadIdle /\ OfflineIdle /\ BatchIdle /\ ContextIdle /\ PipelineIdle

SpecClass == InitClass /\ [][ClassNext]_vars

InitContext == ContextInit /\ TrimOnly /\ LoadIdle /\ OfflineIdle /\ BatchIdle /\ ClassIdle /\ PipelineIdle

SpecContext == InitContext /\ [][ContextNext]_vars

InitResults ==
    /\ ResultsInit /\ MainIdle /\ HistoryIdle
    /\ TrimOnly /\ LoadIdle /\ OfflineIdle /\ BatchIdle /\ ClassIdle /\ ContextIdle

SpecResults == InitResults /\ [][ResultsNext]_vars

InitMain ==
    /\ MainInit /\ ResultsIdle /\ HistoryIdle
    /\ TrimOnly /\ LoadIdle /\ OfflineIdle /\ ClassIdle /\ ContextIdle

SpecMain == InitMain /\ [][MainNext]_vars

InitHistory ==
    /\ HistoryInit /\ ResultsIdle /\ MainIdle
    /\ TrimOnly /\ LoadIdle /\ OfflineIdle /\ BatchIdle /\ ClassIdle /\ ContextIdle

SpecHistory == InitHistory /\ [][HistoryNext]_vars

SpecOffline == InitOffline /\ [][OfflineNext]_vars

Init == TrimInit /\ LoadIdle /\ OfflineIdle /\ BatchIdle /\ ClassIdle /\ ContextIdle /\ PipelineIdle

Next == TrimNext

Spec == Init /\ [][Next]_vars

====
